---- MODULE Spec2Model ----
(***************************************************************************)
(* A model of the typing_json library: the descriptor classifiers          *)
(* (is_typecheckable, is_keyable, is_namedtuple, is_json_encodable), the   *)
(* conformance checker is_instance, the encoder to_json_obj and the        *)
(* decoder from_json_obj.  The library is a family of pure recursive       *)
(* functions; each is an operator here, computed branch by branch as the   *)
(* Python code computes it, and the state machine below calls them on      *)
(* inputs drawn from bounded sets.                                         *)
(*                                                                         *)
(* Runtime values are records [k |-> kind, v |-> payload]:                 *)
(*   bool      v \in BOOLEAN                                               *)
(*   int       v an integer                                                *)
(*   float     v the magnitude counted in halves (3 is 1.5)                *)
(*   Decimal   v the magnitude counted in halves                           *)
(*   str       v a text: <<"txt", a>> for a word that is neither a number  *)
(*             nor JSON, <<"json", style, j>> for the JSON text of j       *)
(*   NoneType  v = 0                                                       *)
(*   list, tuple, deque, set, frozenset   v the elements in iteration      *)
(*             order (for the two set kinds without equal elements)        *)
(*   dict, OrderedDict   v the items <<key, value>> in insertion order     *)
(*   enum      v = <<enumeration name, member name>>                       *)
(*   namedtuple v = <<class name, field values in declared order>>         *)
(*   complex   v = 0 (a value of a typecheckable, non-JSON base type)      *)
(* The numeric domain holds only magnitudes that are exact both as a       *)
(* binary float and as a Decimal, so float(), int() and Decimal() change   *)
(* the kind of a number and keep its magnitude.                            *)
(***************************************************************************)
EXTENDS Integers, Sequences, FiniteSets, TLC

\* call: the library call made last, [fn, t, obj, cast_decimal, use_decimal]
\* ret:  what that call returned or raised
\* src:  for a decode of an encoder's output, the value that was encoded
VARIABLES call, ret, src

vars == <<call, ret, src>>

(* ------------------------------------------------------------------ *)
(* Bounds of the model.                                                *)
(* ------------------------------------------------------------------ *)

\* Longest list/tuple/deque/set/dict drawn as an input.
MaxLen == 2

\* Integers drawn as inputs are 0..MaxInt.
MaxInt == 1

(* ------------------------------------------------------------------ *)
(* Runtime values.                                                     *)
(* ------------------------------------------------------------------ *)

PyBool(b) == [k |-> "bool", v |-> b]
PyInt(n) == [k |-> "int", v |-> n]
PyFloat(h) == [k |-> "float", v |-> h]
PyDecimal(h) == [k |-> "Decimal", v |-> h]
PyStr(s) == [k |-> "str", v |-> s]
PyNone == [k |-> "NoneType", v |-> 0]
PyComplex == [k |-> "complex", v |-> 0]
PyList(s) == [k |-> "list", v |-> s]
PyTuple(s) == [k |-> "tuple", v |-> s]
PyDeque(s) == [k |-> "deque", v |-> s]
PySet(s) == [k |-> "set", v |-> s]
PyFrozenSet(s) == [k |-> "frozenset", v |-> s]
PyDict(items) == [k |-> "dict", v |-> items]
PyOrderedDict(items) == [k |-> "OrderedDict", v |-> items]
PyEnum(e, m) == [k |-> "enum", v |-> <<e, m>>]
PyNamedTuple(c, vals) == [k |-> "namedtuple", v |-> <<c, vals>>]

Txt(a) == <<"txt", a>>

NumericKinds == {"bool", "int", "float", "Decimal"}
SequenceKinds == {"list", "tuple", "deque"}
SetKinds == {"set", "frozenset"}
DictKinds == {"dict", "OrderedDict"}

\* The magnitude of a number in halves; True is 1 and False is 0.
Mag(x) ==
    CASE x.k = "bool" -> (IF x.v THEN 2 ELSE 0)
      [] x.k = "int" -> 2 * x.v
      [] OTHER -> x.v

\* Decimal.to_integral_value() == self
IsIntegral(x) == Mag(x) % 2 = 0

\* The elements a tuple comparison sees: a namedtuple instance is a tuple.
TupleItems(x) == IF x.k = "namedtuple" THEN x.v[2] ELSE x.v

RECURSIVE PyEq(_, _)
\* Python's ==: numbers compare by magnitude across bool/int/float/Decimal,
\* sequences elementwise within one kind, the set kinds by content, the
\* dict kinds by items (in order when both are OrderedDicts).
PyEq(a, b) ==
    CASE a.k \in NumericKinds /\ b.k \in NumericKinds -> Mag(a) = Mag(b)
      [] a.k \in {"list", "deque"} /\ b.k = a.k ->
            /\ Len(a.v) = Len(b.v)
            /\ \A i \in 1..Len(a.v) : PyEq(a.v[i], b.v[i])
      [] a.k \in {"tuple", "namedtuple"} /\ b.k \in {"tuple", "namedtuple"} ->
            /\ Len(TupleItems(a)) = Len(TupleItems(b))
            /\ \A i \in 1..Len(TupleItems(a)) : PyEq(TupleItems(a)[i], TupleItems(b)[i])
      [] a.k \in SetKinds /\ b.k \in SetKinds ->
            /\ Len(a.v) = Len(b.v)
            /\ \A i \in 1..Len(a.v) : \E j \in 1..Len(b.v) : PyEq(a.v[i], b.v[j])
      [] a.k = "OrderedDict" /\ b.k = "OrderedDict" ->
            /\ Len(a.v) = Len(b.v)
            /\ \A i \in 1..Len(a.v) :
                  PyEq(a.v[i][1], b.v[i][1]) /\ PyEq(a.v[i][2], b.v[i][2])
      [] a.k \in DictKinds /\ b.k \in DictKinds ->
            /\ Len(a.v) = Len(b.v)
            /\ \A i \in 1..Len(a.v) : \E j \in 1..Len(b.v) :
                  PyEq(a.v[i][1], b.v[j][1]) /\ PyEq(a.v[i][2], b.v[j][2])
      [] a.k = b.k /\ a.k \in {"str", "NoneType", "enum", "complex"} -> a.v = b.v
      [] OTHER -> FALSE

RECURSIVE Hashable(_)
\* hash(x) does not raise: lists, deques, sets and dicts are unhashable,
\* tuples and frozensets are hashable when their elements are.
Hashable(x) ==
    CASE x.k \in {"list", "deque", "set", "dict", "OrderedDict"} -> FALSE
      [] x.k \in {"tuple", "frozenset"} -> \A i \in 1..Len(x.v) : Hashable(x.v[i])
      [] x.k = "namedtuple" -> \A i \in 1..Len(x.v[2]) : Hashable(x.v[2][i])
      [] OTHER -> TRUE

\* Whether some element of the sequence s is == to x.
Contains(s, x) == \E i \in 1..Len(s) : PyEq(s[i], x)

RECURSIVE Dedup(_)
\* set(iterable): the elements in order, an element == to an earlier one dropped.
Dedup(s) ==
    IF s = << >> THEN << >>
    ELSE LET front == Dedup(SubSeq(s, 1, Len(s) - 1))
         IN IF Contains(front, s[Len(s)]) THEN front ELSE Append(front, s[Len(s)])

\* The position of key x among the items of a dict, 0 when absent.
KeyIndex(items, x) ==
    IF \E i \in 1..Len(items) : PyEq(items[i][1], x)
    THEN CHOOSE i \in 1..Len(items) : PyEq(items[i][1], x)
    ELSE 0

\* d[key] = val on the items of a dict: an existing key keeps its place
\* (and its first spelling), a new key is appended.
SetItem(items, key, val) ==
    LET i == KeyIndex(items, key)
    IN IF i = 0 THEN Append(items, <<key, val>>)
       ELSE [items EXCEPT ![i] = <<items[i][1], val>>]

(* ------------------------------------------------------------------ *)
(* Type descriptors.                                                   *)
(*   [k |-> "bool" | "int" | "float" | "str" | "NoneType" | "Decimal"] *)
(*   [k |-> "None"]      None used as an alias of NoneType             *)
(*   [k |-> "complex"]   a typecheckable base type that is not JSON    *)
(*   [k |-> "Any"]       typing.Any                                    *)
(*   [k |-> "class"]     a plain class, outside the algebra            *)
(*   [k |-> "enum", name, members]                                     *)
(*   [k |-> "Literal", args]      args a sequence of values            *)
(*   [k |-> "Union", args]        args a sequence of descriptors       *)
(*   [k |-> "list" | "set" | "frozenset" | "deque", args |-> <<T>>]    *)
(*   [k |-> "tuple", variadic, args]                                   *)
(*   [k |-> "dict" | "OrderedDict" | "Mapping", args |-> <<K, V>>]     *)
(*   [k |-> "namedtuple", name, fields, types, defaults]               *)
(*         defaults a sequence of <<field name, value>>                *)
(* ------------------------------------------------------------------ *)

BoolT == [k |-> "bool"]
IntT == [k |-> "int"]
FloatT == [k |-> "float"]
StrT == [k |-> "str"]
NoneT == [k |-> "NoneType"]
NoneAlias == [k |-> "None"]
DecimalT == [k |-> "Decimal"]
ComplexT == [k |-> "complex"]
AnyT == [k |-> "Any"]
ClassC == [k |-> "class"]
EnumOf(n, ms) == [k |-> "enum", name |-> n, members |-> ms]
LiteralOf(a) == [k |-> "Literal", args |-> a]
UnionOf(a) == [k |-> "Union", args |-> a]
ListOf(s) == [k |-> "list", args |-> <<s>>]
SetOf(s) == [k |-> "set", args |-> <<s>>]
FrozenSetOf(s) == [k |-> "frozenset", args |-> <<s>>]
DequeOf(s) == [k |-> "deque", args |-> <<s>>]
TupleVar(s) == [k |-> "tuple", variadic |-> TRUE, args |-> <<s>>]
TupleFix(a) == [k |-> "tuple", variadic |-> FALSE, args |-> a]
DictOf(K, V) == [k |-> "dict", args |-> <<K, V>>]
OrderedDictOf(K, V) == [k |-> "OrderedDict", args |-> <<K, V>>]
MappingOf(K, V) == [k |-> "Mapping", args |-> <<K, V>>]
NamedTupleOf(n, fs, ts, ds) ==
    [k |-> "namedtuple", name |-> n, fields |-> fs, types |-> ts, defaults |-> ds]

JSON_BASE_TYPES == {"bool", "int", "float", "str", "NoneType"}

\* Of the Python tuple, the base types the model's descriptors can name.
KEYABLE_BASE_TYPES == {"bool", "int", "float", "Decimal", "complex", "str"}

\* Of the Python tuple, the base types the model's descriptors can name.
TYPECHECKABLE_BASE_TYPES == {"bool", "int", "float", "Decimal", "complex", "str"}

\* hasattr(t, "__origin__") and hasattr(t, "__args__")
IsGeneric(t) ==
    t.k \in {"Literal", "Union", "list", "set", "frozenset", "deque", "tuple",
             "dict", "OrderedDict", "Mapping"}

\* The position of field n in the declared fields of a namedtuple type.
FieldIndex(t, n) == CHOOSE i \in 1..Len(t.fields) : t.fields[i] = n

\* n in t._field_defaults
HasDefault(t, n) == \E i \in 1..Len(t.defaults) : t.defaults[i][1] = n

\* t._field_defaults[n]
DefaultOf(t, n) ==
    t.defaults[CHOOSE i \in 1..Len(t.defaults) : t.defaults[i][1] = n][2]

(* ------------------------------------------------------------------ *)
(* Results of the checkers: the boolean returned, the exception raised *)
(* ("" when none) and the reasons handed to failure_callback, in the   *)
(* order of the calls.  A reason is <<message, descriptor>>.           *)
(* ------------------------------------------------------------------ *)

Passed(trail) == [ok |-> TRUE, exc |-> "", trail |-> trail]
Failed(trail) == [ok |-> FALSE, exc |-> "", trail |-> trail]
Raised(e, trail) == [ok |-> FALSE, exc |-> e, trail |-> trail]

\* return _not_...(message, failure_callback) after the calls that left `trail`
FailWith(trail, msg, ty) == Failed(Append(trail, <<msg, ty>>))

RECURSIVE TrailUpTo(_, _)
\* The reasons left by the first n of the calls rs.
TrailUpTo(rs, n) ==
    IF n = 0 THEN << >> ELSE TrailUpTo(rs, n - 1) \o rs[n].trail

\* The first call of rs that raised or returned `stop`, 0 when there is none.
FirstStop(rs, stop) ==
    LET S == {i \in 1..Len(rs) : rs[i].exc # "" \/ rs[i].ok = stop}
    IN IF S = {} THEN 0 ELSE CHOOSE i \in S : \A j \in S : i <= j

\* all(... for ...) over the calls rs: it stops at the first False (or raise).
AllOf(rs) ==
    LET i == FirstStop(rs, FALSE)
    IN IF i = 0 THEN Passed(TrailUpTo(rs, Len(rs)))
       ELSE [ok |-> FALSE, exc |-> rs[i].exc, trail |-> TrailUpTo(rs, i)]

\* any(... for ...) over the calls rs: it stops at the first True (or raise).
AnyOf(rs) ==
    LET i == FirstStop(rs, TRUE)
    IN IF i = 0 THEN Failed(TrailUpTo(rs, Len(rs)))
       ELSE [ok |-> rs[i].exc = "", exc |-> rs[i].exc, trail |-> TrailUpTo(rs, i)]

\* A call made without failure_callback: same answer, no reasons kept.
NoCallback(r) == [r EXCEPT !.trail = << >>]

(* ------------------------------------------------------------------ *)
(* typechecking.py                                                     *)
(* ------------------------------------------------------------------ *)

RECURSIVE is_keyable(_)
RECURSIVE is_typecheckable(_)
RECURSIVE is_instance(_, _, _)
RECURSIVE is_namedtuple(_, _, _, _)

\* The reason is_namedtuple gives for a type that is no class deriving from
\* tuple alone: a typing construct has no __bases__, a class has other bases.
NotNamedTupleReason(t) ==
    IF IsGeneric(t) \/ t.k \in {"Any", "None"}
    THEN "Type has no attribute __bases__."
    ELSE "Attribute bases for type should be [tuple]"

\* is_namedtuple, lines 408-431, on the outcomes fc of the checks of the
\* field types (for each field, the typecheckable check then the keyable
\* check) and dc of the checks of the defaults: the first that fails stops
\* the function, after the reasons left by the checks made before it.
NamedTupleVerdict(fc, dc, i, j, t) ==
    IF i # 0
    THEN IF fc[i].exc # "" THEN Raised(fc[i].exc, TrailUpTo(fc, i))
         ELSE FailWith(TrailUpTo(fc, i),
                       IF i % 2 = 1
                       THEN "Field has non-typecheckable field type"
                       ELSE "Field has non-keyable field type", t)
    ELSE IF j # 0
    THEN IF dc[j].exc # ""
         THEN Raised(dc[j].exc, TrailUpTo(fc, Len(fc)) \o TrailUpTo(dc, j))
         ELSE FailWith(TrailUpTo(fc, Len(fc)) \o TrailUpTo(dc, j),
                       "Default value for field should be of type", t)
    ELSE Passed(TrailUpTo(fc, Len(fc)) \o TrailUpTo(dc, Len(dc)))

\* is_namedtuple, lines 408-431, on the outcomes of the checks.
NamedTupleChecks(fc, dc, t) ==
    NamedTupleVerdict(fc, dc, FirstStop(fc, FALSE), FirstStop(dc, FALSE), t)

\* is_namedtuple without the check of the defaults against the field types.
is_namedtuple_NoDefaults(t, check_typecheckable, check_keyable, cast_decimal) ==
    IF t.k # "namedtuple"
    THEN FailWith(<< >>, NotNamedTupleReason(t), t)
    ELSE NamedTupleChecks(
           [i \in 1..(2 * Len(t.fields)) |->
              IF i % 2 = 1
              THEN (IF check_typecheckable THEN is_typecheckable(t.types[(i + 1) \div 2])
                    ELSE Passed(<< >>))
              ELSE (IF check_keyable THEN is_keyable(t.types[(i + 1) \div 2])
                    ELSE Passed(<< >>))],
           [j \in 1..Len(t.defaults) |-> Passed(<< >>)],
           t)

\* The namedtuple types of the model carry well-formed _fields, _field_types
\* and _field_defaults attributes (steps 3 to 9 of the docstring pass on
\* their shape); what is_namedtuple decides on them is the typecheckability
\* and keyability of the field types and the conformance of the defaults.
is_namedtuple(t, check_typecheckable, check_keyable, cast_decimal) ==
    IF t.k # "namedtuple"
    THEN FailWith(<< >>, NotNamedTupleReason(t), t)
    ELSE NamedTupleChecks(
           [i \in 1..(2 * Len(t.fields)) |->
              IF i % 2 = 1
              THEN (IF check_typecheckable THEN is_typecheckable(t.types[(i + 1) \div 2])
                    ELSE Passed(<< >>))
              ELSE (IF check_keyable THEN is_keyable(t.types[(i + 1) \div 2])
                    ELSE Passed(<< >>))],
           [j \in 1..Len(t.defaults) |->
              IF check_typecheckable
              THEN is_instance(t.defaults[j][2],
                               t.types[FieldIndex(t, t.defaults[j][1])],
                               cast_decimal)
              ELSE Passed(<< >>)],
           t)

\* `return True` when the check a passed, else the exception it raised or
\* `return _not_...(msg)` after the reasons it left.
Close(a, msg, t) ==
    IF a.exc # "" \/ a.ok THEN a ELSE FailWith(a.trail, msg, t)

is_keyable(t) ==
    CASE t.k \in KEYABLE_BASE_TYPES -> Passed(<< >>)
      [] t.k \in {"None", "NoneType"} -> Passed(<< >>)
      [] t.k = "enum" -> Passed(<< >>)
      [] t.k \in {"frozenset", "Union"} \/ (t.k = "tuple" /\ ~t.variadic) ->
            Close(AllOf([i \in 1..Len(t.args) |-> is_keyable(t.args[i])]),
                  "Not all type arguments of type are keyable.", t)
      [] t.k = "tuple" /\ t.variadic ->
            Close(is_keyable(t.args[1]),
                  "Not all type arguments of type are keyable.", t)
      [] t.k = "Literal" ->
            IF \A i \in 1..Len(t.args) :
                  t.args[i].k \in KEYABLE_BASE_TYPES \/ t.args[i].k = "NoneType"
            THEN Passed(<< >>)
            ELSE Raised("AssertionError", << >>)
      [] OTHER ->
            Close(NoCallback(is_namedtuple(t, TRUE, TRUE, TRUE)),
                  "Type is not keyable.", t)

is_typecheckable(t) ==
    CASE t.k \in TYPECHECKABLE_BASE_TYPES -> Passed(<< >>)
      [] t.k \in {"None", "NoneType", "Any"} -> Passed(<< >>)
      [] t.k = "enum" -> Passed(<< >>)
      [] \/ t.k \in {"list", "set", "frozenset", "dict", "deque", "OrderedDict",
                     "Union", "Mapping"}
         \/ (t.k = "tuple" /\ ~t.variadic) ->
            Close(AllOf([i \in 1..Len(t.args) |-> is_typecheckable(t.args[i])]),
                  "Not all type arguments of type are typecheckable.", t)
      [] t.k = "tuple" /\ t.variadic ->
            Close(is_typecheckable(t.args[1]),
                  "Not all type arguments of type are typecheckable.", t)
      [] t.k = "Literal" ->
            IF \A i \in 1..Len(t.args) : t.args[i].k \in JSON_BASE_TYPES
            THEN Passed(<< >>)
            ELSE FailWith(<< >>,
                   "Not all type arguments of literal type are of JSON basic type.", t)
      [] OTHER ->
            Close(is_namedtuple(t, TRUE, FALSE, TRUE), "Type is not typecheckable.", t)

\* isinstance(obj, t) for a base type t: bool is a subclass of int.
IsInstanceBuiltin(obj, t) ==
    \/ obj.k = t.k
    \/ t.k = "int" /\ obj.k = "bool"

\* IsInstanceBase without the test that a Decimal cast to int is integral.
IsInstanceBase_AnyDecimalIsInt(obj, t, cast_decimal) ==
    IF t.k = "int" /\ obj.k = "bool"
    THEN Failed(<< >>)
    ELSE IF t.k \in {"int", "float"} /\ obj.k = "Decimal" /\ cast_decimal
    THEN Passed(<< >>)
    ELSE IF t.k = "float" /\ obj.k = "int"
    THEN Passed(<< >>)
    ELSE IF IsInstanceBuiltin(obj, t)
    THEN Passed(<< >>)
    ELSE FailWith(<< >>, "Value is not of type", t)

\* IsInstanceBase without the exclusion of bool from int: plain isinstance.
IsInstanceBase_BoolIsInt(obj, t, cast_decimal) ==
    IF t.k = "int" /\ obj.k = "Decimal" /\ cast_decimal /\ IsIntegral(obj)
    THEN Passed(<< >>)
    ELSE IF t.k = "float" /\ obj.k = "Decimal" /\ cast_decimal
    THEN Passed(<< >>)
    ELSE IF t.k = "float" /\ obj.k = "int"
    THEN Passed(<< >>)
    ELSE IF IsInstanceBuiltin(obj, t)
    THEN Passed(<< >>)
    ELSE FailWith(<< >>, "Value is not of type", t)

\* is_instance, lines 223-238: t in TYPECHECKABLE_BASE_TYPES.
IsInstanceBase(obj, t, cast_decimal) ==
    IF t.k = "int" /\ obj.k = "bool"
    THEN Failed(<< >>)
    ELSE IF t.k = "int" /\ obj.k = "Decimal" /\ cast_decimal /\ IsIntegral(obj)
    THEN Passed(<< >>)
    ELSE IF t.k = "float" /\ obj.k = "Decimal" /\ cast_decimal
    THEN Passed(<< >>)
    ELSE IF t.k = "float" /\ obj.k = "int"
    THEN Passed(<< >>)
    ELSE IF IsInstanceBuiltin(obj, t)
    THEN Passed(<< >>)
    ELSE FailWith(<< >>, "Value is not of type", t)

\* After that raises TypeError where the branch returns _not_instance(msg).
After_Raises(before, a, msg, t) ==
    IF a.exc # "" THEN Raised(a.exc, before \o a.trail)
    ELSE IF a.ok THEN Passed(before \o a.trail)
    ELSE Raised("TypeError", Append(before \o a.trail, <<msg, t>>))

\* The end of a branch of is_instance on the outcome a of its checks, after
\* the reasons `before` that is_namedtuple(t) left: True, the exception
\* raised, or `return _not_instance(msg)`.
After(before, a, msg, t) ==
    IF a.exc # "" THEN Raised(a.exc, before \o a.trail)
    ELSE IF a.ok THEN Passed(before \o a.trail)
    ELSE FailWith(before \o a.trail, msg, t)

\* all(is_instance(x, s) for x in items) followed by the branch's failure
\* reason.
AllInstances(before, items, s, cast_decimal, msg, t) ==
    After(before, AllOf([i \in 1..Len(items) |-> is_instance(items[i], s, cast_decimal)]),
          msg, t)

\* ItemsVerdict that does not look at the values.
ItemsVerdict_KeysOnly(before, ks, vs, t) ==
    IF ks.exc # "" THEN Raised(ks.exc, before \o ks.trail)
    ELSE IF ~ks.ok
    THEN FailWith(before \o ks.trail, "Not all keys are of type", t)
    ELSE Passed(before \o ks.trail)

\* is_instance, lines 321-353, on the outcomes ks of the checks of the keys
\* and vs of the checks of the values.
ItemsVerdict(before, ks, vs, t) ==
    IF ks.exc # "" THEN Raised(ks.exc, before \o ks.trail)
    ELSE IF ~ks.ok
    THEN FailWith(before \o ks.trail, "Not all keys are of type", t)
    ELSE IF vs.exc # "" THEN Raised(vs.exc, before \o ks.trail \o vs.trail)
    ELSE IF ~vs.ok
    THEN FailWith(before \o ks.trail \o vs.trail, "Not all values are of type", t)
    ELSE Passed(before \o ks.trail \o vs.trail)

\* is_instance, lines 321-353: the Dict, OrderedDict and Mapping branches,
\* after the isinstance test on the container: all keys, then all values.
IsInstanceItems(before, obj, t, cast_decimal) ==
    ItemsVerdict(before,
                 AllOf([i \in 1..Len(obj.v) |->
                          is_instance(obj.v[i][1], t.args[1], cast_decimal)]),
                 AllOf([i \in 1..Len(obj.v) |->
                          is_instance(obj.v[i][2], t.args[2], cast_decimal)]),
                 t)

\* is_instance, lines 252-264: t is a namedtuple type.
IsInstanceNamedTuple(before, obj, t, cast_decimal) ==
    IF ~(obj.k = "namedtuple" /\ obj.v[1] = t.name)
    THEN FailWith(before, "Value is not of type: wrong class", t)
    ELSE After(before,
               AllOf([i \in 1..Len(t.fields) |->
                        is_instance(obj.v[2][i], t.types[i], cast_decimal)]),
               "Value is not of type: wrong type for field", t)

\* is_instance, lines 252-356, on the outcome nt of is_namedtuple(t): the
\* namedtuple branch when it passed, else the branches of the generics after
\* the reasons it left, else the TypeError for an unsupported type.
IsInstanceOther(nt, obj, t, cast_decimal) ==
    CASE nt.exc # "" -> nt
      [] nt.exc = "" /\ nt.ok -> IsInstanceNamedTuple(nt.trail, obj, t, cast_decimal)
      [] nt.exc = "" /\ ~nt.ok /\ t.k = "Union" ->
           After(nt.trail,
                 AnyOf([i \in 1..Len(t.args) |-> is_instance(obj, t.args[i], cast_decimal)]),
                 "Value does not match any of the types", t)
      [] nt.exc = "" /\ ~nt.ok /\ t.k = "Literal" ->
           IF Contains(t.args, obj) THEN Passed(nt.trail)
           ELSE FailWith(nt.trail, "Value does not match any of the values", t)
      [] nt.exc = "" /\ ~nt.ok /\ t.k \in {"list", "set", "frozenset", "deque"} ->
           IF obj.k # t.k
           THEN FailWith(nt.trail, "Value is not a list/set/frozenset/deque", t)
           ELSE AllInstances(nt.trail, obj.v, t.args[1], cast_decimal,
                             "Not all elements are of type", t)
      [] nt.exc = "" /\ ~nt.ok /\ t.k = "tuple" ->
           IF obj.k \notin {"tuple", "namedtuple"}
           THEN FailWith(nt.trail, "Value is not a tuple", t)
           ELSE IF t.variadic
           THEN AllInstances(nt.trail, TupleItems(obj), t.args[1], cast_decimal,
                             "Not all elements are of type", t)
           ELSE IF Len(TupleItems(obj)) # Len(t.args)
           THEN FailWith(nt.trail, "Tuple is of the wrong length for type", t)
           ELSE After(nt.trail,
                      AllOf([i \in 1..Len(t.args) |->
                               is_instance(TupleItems(obj)[i], t.args[i], cast_decimal)]),
                      "Not all values are of the respective types", t)
      [] nt.exc = "" /\ ~nt.ok /\ t.k = "dict" ->
           IF obj.k \notin {"dict", "OrderedDict"}
           THEN FailWith(nt.trail, "Value is not a dict", t)
           ELSE IsInstanceItems(nt.trail, obj, t, cast_decimal)
      [] nt.exc = "" /\ ~nt.ok /\ t.k = "OrderedDict" ->
           IF obj.k # "OrderedDict"
           THEN FailWith(nt.trail, "Value is not an OrderedDict", t)
           ELSE IsInstanceItems(nt.trail, obj, t, cast_decimal)
      [] nt.exc = "" /\ ~nt.ok /\ t.k = "Mapping" ->
           IF obj.k \notin {"dict", "OrderedDict"}
           THEN FailWith(nt.trail, "Value is not a dict or OrderedDict", t)
           ELSE IsInstanceItems(nt.trail, obj, t, cast_decimal)
      [] OTHER ->
           Raised("TypeError", Append(nt.trail, <<"Type is not supported.", t>>))

is_instance(obj, t, cast_decimal) ==
    CASE t.k \in TYPECHECKABLE_BASE_TYPES -> IsInstanceBase(obj, t, cast_decimal)
      [] t.k \in {"None", "NoneType"} ->
            IF obj.k = "NoneType" THEN Passed(<< >>)
            ELSE FailWith(<< >>, "Value is not of type", t)
      [] t.k = "Any" -> Passed(<< >>)
      [] t.k = "enum" ->
            IF obj.k = "enum" /\ obj.v[1] = t.name
               /\ \E i \in 1..Len(t.members) : t.members[i] = obj.v[2]
            THEN Passed(<< >>)
            ELSE FailWith(<< >>, "Value is not of enum type", t)
      [] OTHER -> IsInstanceOther(is_namedtuple(t, TRUE, FALSE, TRUE), obj, t, cast_decimal)

(* ------------------------------------------------------------------ *)
(* Texts: str(Decimal), Decimal(str), json.dumps and json.loads.       *)
(* ------------------------------------------------------------------ *)

RECURSIVE HasSeparator(_)
\* Whether the JSON text of j holds an item or key separator.
HasSeparator(j) ==
    CASE j.k = "list" ->
            Len(j.v) >= 2 \/ \E i \in 1..Len(j.v) : HasSeparator(j.v[i])
      [] j.k \in DictKinds -> Len(j.v) >= 1
      [] OTHER -> FALSE

\* The text json.dumps writes for j with its default separators ", " and
\* ": "; a text without separators reads the same under every style.
JsonText(j) == <<"json", IF HasSeparator(j) THEN "spaced" ELSE "plain", j>>

\* str(d) for a Decimal d: "2" for an integral magnitude, "1.5" otherwise.
DecimalStr(d) ==
    PyStr(JsonText(IF IsIntegral(d) THEN PyInt(d.v \div 2) ELSE PyFloat(d.v)))

\* Whether Decimal(s) parses the str s: s is the text of one number.
IsNumeral(s) == s.v[1] = "json" /\ s.v[3].k \in {"int", "float"}

RECURSIVE JsonSerializable(_)
\* json.dumps raises TypeError on a Decimal (and on any other object that is
\* not a bool, number, str, None, list, tuple or dict).
JsonSerializable(x) ==
    CASE x.k \in {"bool", "int", "float", "str", "NoneType"} -> TRUE
      [] x.k \in {"list", "tuple"} -> \A i \in 1..Len(x.v) : JsonSerializable(x.v[i])
      [] x.k \in DictKinds ->
            \A i \in 1..Len(x.v) :
               /\ x.v[i][1].k \in {"bool", "int", "float", "str", "NoneType"}
               /\ JsonSerializable(x.v[i][2])
      [] OTHER -> FALSE

RECURSIVE AsParsed(_)
\* What json.loads gives back for the text of x: arrays are lists, objects
\* are plain dicts with their keys in the order of the text.
AsParsed(x) ==
    CASE x.k \in {"list", "tuple"} -> PyList([i \in 1..Len(x.v) |-> AsParsed(x.v[i])])
      [] x.k \in DictKinds ->
            PyDict([i \in 1..Len(x.v) |-> <<x.v[i][1], AsParsed(x.v[i][2])>>])
      [] OTHER -> x

(* ------------------------------------------------------------------ *)
(* Results of to_json_obj and from_json_obj: the exception raised ("" *)
(* when the call returned), the message of the raise, the value        *)
(* returned and the trace the message carries.                         *)
(* ------------------------------------------------------------------ *)

NoValue == [k |-> "<no value>", v |-> 0]
Returned(x) == [exc |-> "", why |-> "", val |-> x, trace |-> << >>]
Raise(e, why, trace) == [exc |-> e, why |-> why, val |-> NoValue, trace |-> trace]

\* The first of the calls rs that raised, 0 when all returned.
FirstRaise(rs) ==
    LET S == {i \in 1..Len(rs) : rs[i].exc # ""}
    IN IF S = {} THEN 0 ELSE CHOOSE i \in S : \A j \in S : i <= j

\* The values the calls rs returned.
Vals(rs) == [i \in 1..Len(rs) |-> rs[i].val]

\* json.dumps(x)
JsonDumps(x) ==
    IF JsonSerializable(x) THEN Returned(PyStr(JsonText(AsParsed(x))))
    ELSE Raise("TypeError", "Object is not JSON serializable", << >>)

\* json.loads(s)
JsonLoads(s) ==
    IF s.k # "str" THEN Raise("TypeError", "the JSON object must be str", << >>)
    ELSE IF s.v[1] = "json" THEN Returned(s.v[3])
    ELSE Raise("JSONDecodeError", "Expecting value", << >>)

(* ------------------------------------------------------------------ *)
(* encoding.py                                                         *)
(* ------------------------------------------------------------------ *)

RECURSIVE is_json_encodable(_)

\* MappingEncodable without the test that the key type is keyable.
MappingEncodable_NoKeyable(before, kk, ke, ve, t) ==
    IF ke.exc # "" THEN Raised(ke.exc, before \o ke.trail)
    ELSE IF ~ke.ok
    THEN FailWith(before \o ke.trail, "Type of keys is not json-encodable.", t)
    ELSE IF ve.exc # "" THEN Raised(ve.exc, before \o ke.trail \o ve.trail)
    ELSE IF ~ve.ok
    THEN FailWith(before \o ke.trail \o ve.trail,
                  "Type of values is not json-encodable.", t)
    ELSE Passed(before \o ke.trail \o ve.trail)

\* is_json_encodable, lines 105-113: the three tests on a mapping type, in
\* the order of the code: kk is is_keyable(K), ke and ve are
\* is_json_encodable of the key type and of the value type.
MappingEncodable(before, kk, ke, ve, t) ==
    IF kk.exc # "" THEN Raised(kk.exc, before \o kk.trail)
    ELSE IF ~kk.ok
    THEN FailWith(before \o kk.trail, "Type of keys is not keyable.", t)
    ELSE IF ke.exc # "" THEN Raised(ke.exc, before \o kk.trail \o ke.trail)
    ELSE IF ~ke.ok
    THEN FailWith(before \o kk.trail \o ke.trail,
                  "Type of keys is not json-encodable.", t)
    ELSE IF ve.exc # ""
    THEN Raised(ve.exc, before \o kk.trail \o ke.trail \o ve.trail)
    ELSE IF ~ve.ok
    THEN FailWith(before \o kk.trail \o ke.trail \o ve.trail,
                  "Type of values is not json-encodable.", t)
    ELSE Passed(before \o kk.trail \o ke.trail \o ve.trail)

\* is_json_encodable, lines 63-117: t has passed is_typecheckable, which
\* left the reasons `before`.
JsonEncodableKind(before, t) ==
    CASE t.k \in JSON_BASE_TYPES -> Passed(before)
      [] t.k = "Decimal" -> Passed(before)
      [] t.k = "None" -> Passed(before)
      [] t.k = "enum" -> Passed(before)
      [] t.k = "namedtuple" /\ is_namedtuple(t, TRUE, FALSE, TRUE).ok ->
            After(before,
                  AllOf([i \in 1..Len(t.types) |-> is_json_encodable(t.types[i])]),
                  "Not all fields of namedtuple are json-encodable.", t)
      [] \/ t.k \in {"list", "set", "frozenset", "deque"}
         \/ (t.k = "tuple" /\ t.variadic) ->
            After(before, is_json_encodable(t.args[1]),
                  "Type of elements is not json-encodable.", t)
      [] t.k = "tuple" /\ ~t.variadic ->
            After(before,
                  AllOf([i \in 1..Len(t.args) |-> is_json_encodable(t.args[i])]),
                  "Type of some element is not json-encodable.", t)
      [] t.k = "Union" ->
            After(before,
                  AllOf([i \in 1..Len(t.args) |-> is_json_encodable(t.args[i])]),
                  "Some type is not json-encodable.", t)
      [] t.k \in {"dict", "OrderedDict", "Mapping"} ->
            MappingEncodable(before, is_keyable(t.args[1]),
                             is_json_encodable(t.args[1]),
                             is_json_encodable(t.args[2]), t)
      [] t.k = "Literal" -> Passed(before)
      [] OTHER -> Failed(before)

\* is_json_encodable, lines 60-62: tc is is_typecheckable(t).
JsonEncodableAfter(tc, t) ==
    IF tc.exc # "" THEN tc
    ELSE IF ~tc.ok THEN FailWith(tc.trail, "Type is not typecheckable.", t)
    ELSE JsonEncodableKind(tc.trail, t)

is_json_encodable(t) == JsonEncodableAfter(is_typecheckable(t), t)

RECURSIVE to_json_obj(_, _, _)

\* to_json_obj, lines 168-173: t is Decimal.
EncodeDecimal(obj, use_decimal) ==
    IF use_decimal THEN Returned(obj) ELSE Returned(DecimalStr(obj))

\* NamedTupleBlob with the fields in the reverse of their order.
NamedTupleBlob_Reversed(rs, t) ==
    IF FirstRaise(rs) # 0 THEN rs[FirstRaise(rs)]
    ELSE Returned(PyOrderedDict([i \in 1..Len(t.fields) |->
                                   <<PyStr(Txt(t.fields[Len(t.fields) + 1 - i])),
                                     rs[Len(t.fields) + 1 - i].val>>]))

\* to_json_obj, lines 183-186: the ordered dictionary of the encoded fields
\* rs, in the order of _field_types.
NamedTupleBlob(rs, t) ==
    IF FirstRaise(rs) # 0 THEN rs[FirstRaise(rs)]
    ELSE Returned(PyOrderedDict([i \in 1..Len(t.fields) |->
                                   <<PyStr(Txt(t.fields[i])), rs[i].val>>]))

\* to_json_obj, lines 180-186: t is a namedtuple type.
EncodeNamedTuple(obj, t) ==
    NamedTupleBlob([i \in 1..Len(t.fields) |->
                      to_json_obj(obj.v[2][i], t.types[i], FALSE)], t)

\* FirstOf that gives the greatest member of S.
FirstOf_Last(S) == IF S = {} THEN 0 ELSE CHOOSE i \in S : \A j \in S : i >= j

\* The least member of the set S of indices, 0 when S is empty.
FirstOf(S) == IF S = {} THEN 0 ELSE CHOOSE i \in S : \A j \in S : i <= j

\* to_json_obj, lines 189-194: the first type of the union that the value is
\* an instance of encodes it; i is its index, 0 when there is none.
EncodeAsMember(i, obj, t) ==
    IF i = 0 THEN Raise("AssertionError", "Should never reach this point", << >>)
    ELSE to_json_obj(obj, t.args[i], FALSE)

EncodeUnion(obj, t) ==
    EncodeAsMember(FirstOf({i \in 1..Len(t.args) : is_instance(obj, t.args[i], TRUE).ok}),
                   obj, t)

\* The list of the values the calls rs returned, or the first raise.
ListBlob(rs) ==
    IF FirstRaise(rs) # 0 THEN rs[FirstRaise(rs)] ELSE Returned(PyList(Vals(rs)))

\* to_json_obj, lines 198-206: collections and tuples become lists.
EncodeElements(obj, t) ==
    ListBlob([i \in 1..Len(TupleItems(obj)) |->
                to_json_obj(TupleItems(obj)[i],
                            IF t.k = "tuple" /\ ~t.variadic THEN t.args[i]
                            ELSE t.args[1],
                            FALSE)])

\* KeysAreDumped that dumps Decimal keys as well.
KeysAreDumped_Decimal(K) ==
    ~(\/ K.k \in JSON_BASE_TYPES \union {"None"}
      \/ K.k = "Literal"
      \/ K.k = "enum")

\* to_json_obj, lines 211-224: whether the keys of a mapping with key type K
\* are JSON-dumped to strings after they are encoded.
KeysAreDumped(K) ==
    ~(\/ K.k \in JSON_BASE_TYPES \union {"Decimal", "None"}
      \/ K.k = "Literal"
      \/ K.k = "enum")

\* KeyBlob that never dumps the encoded key.
KeyBlob_Undumped(dumped, e) == e

\* to_json_obj, lines 213, 217 and 224: the encoded key e, JSON-dumped when
\* `dumped`.
KeyBlob(dumped, e) ==
    IF ~dumped \/ e.exc # "" THEN e ELSE JsonDumps(e.val)

\* to_json_obj, lines 210-224: encoded_fields[i] for the key `field`.
EncodeKey(field, K) == KeyBlob(KeysAreDumped(K), to_json_obj(field, K, FALSE))

RECURSIVE InsertAll(_, _, _)
\* The items of the dict built by assigning vs[i] to ks[i] for i = 1..n.
InsertAll(ks, vs, n) ==
    IF n = 0 THEN << >> ELSE SetItem(InsertAll(ks, vs, n - 1), ks[n], vs[n])

\* to_json_obj, lines 225-233: the dictionary of the encoded keys ks and the
\* encoded values vs; all keys are encoded first, then value by value.
MappingBlob(ks, vs, t) ==
    IF FirstRaise(ks) # 0 THEN ks[FirstRaise(ks)]
    ELSE IF FirstRaise(vs) # 0 THEN vs[FirstRaise(vs)]
    ELSE IF t.k = "OrderedDict"
    THEN Returned(PyOrderedDict(InsertAll(Vals(ks), Vals(vs), Len(ks))))
    ELSE Returned(PyDict(InsertAll(Vals(ks), Vals(vs), Len(ks))))

\* to_json_obj, lines 207-233: Dict and Mapping become a dict, OrderedDict
\* becomes an OrderedDict.
EncodeMapping(obj, t) ==
    MappingBlob([i \in 1..Len(obj.v) |-> EncodeKey(obj.v[i][1], t.args[1])],
                [i \in 1..Len(obj.v) |-> to_json_obj(obj.v[i][2], t.args[2], FALSE)],
                t)

\* to_json_obj, lines 164-233: the branch of the descriptor, once the
\* descriptor and the value have been validated.
EncodeKind(obj, t, use_decimal) ==
    CASE t.k \in JSON_BASE_TYPES -> Returned(obj)
      [] t.k = "Decimal" -> EncodeDecimal(obj, use_decimal)
      [] t.k = "None" -> Returned(PyNone)
      [] t.k = "enum" -> Returned(PyStr(Txt(obj.v[2])))
      [] t.k = "namedtuple" -> EncodeNamedTuple(obj, t)
      [] t.k = "Union" -> EncodeUnion(obj, t)
      [] t.k = "Literal" -> Returned(obj)
      [] t.k \in {"list", "set", "frozenset", "deque", "tuple"} ->
            EncodeElements(obj, t)
      [] t.k \in {"dict", "OrderedDict", "Mapping"} -> EncodeMapping(obj, t)
      [] OTHER -> Raise("AssertionError", "Should never reach this point", << >>)

\* EncodeValidated with the two validations in the other order: the value
\* is checked against the descriptor before the descriptor is checked.
EncodeValidated_ValueFirst(enc, inst, obj, t, use_decimal) ==
    IF inst.exc # "" THEN Raise(inst.exc, "Type is not supported.", inst.trail)
    ELSE IF ~inst.ok THEN Raise("TypeError", "Object is not of type", inst.trail)
    ELSE IF enc.exc # "" THEN Raise(enc.exc, "Should never reach this point", enc.trail)
    ELSE IF ~enc.ok THEN Raise("TypeError", "Type is not json-encodable.", enc.trail)
    ELSE EncodeKind(obj, t, use_decimal)

\* to_json_obj, lines 154-163: enc is is_json_encodable(t, failure_callback)
\* and inst is is_instance(obj, t, failure_callback); the descriptor is
\* validated before the value.
EncodeValidated(enc, inst, obj, t, use_decimal) ==
    IF enc.exc # "" THEN Raise(enc.exc, "Should never reach this point", enc.trail)
    ELSE IF ~enc.ok THEN Raise("TypeError", "Type is not json-encodable.", enc.trail)
    ELSE IF inst.exc # "" THEN Raise(inst.exc, "Type is not supported.", inst.trail)
    ELSE IF ~inst.ok THEN Raise("TypeError", "Object is not of type", inst.trail)
    ELSE EncodeKind(obj, t, use_decimal)

to_json_obj(obj, t, use_decimal) ==
    EncodeValidated(is_json_encodable(t), is_instance(obj, t, TRUE), obj, t, use_decimal)

(* ------------------------------------------------------------------ *)
(* decoding.py                                                         *)
(* ------------------------------------------------------------------ *)

RECURSIVE from_json_obj(_, _, _)

\* AssertInstance without the assert: return_val is returned as built.
AssertInstance_Unchecked(return_val, t, cast_decimal) ==
    Returned(return_val)

\* `assert is_instance(return_val, t, cast_decimal=cast_decimal)` and
\* `return return_val`
AssertInstance(return_val, t, cast_decimal) ==
    IF is_instance(return_val, t, cast_decimal).ok THEN Returned(return_val)
    ELSE Raise("AssertionError", "assert is_instance(return_val, t)", << >>)

\* from_json_obj, lines 71-81: t in JSON_BASE_TYPES.
DecodeBase(obj, t, cast_decimal) ==
    IF t.k = "int" /\ cast_decimal /\ obj.k = "Decimal" /\ IsIntegral(obj)
    THEN Returned(PyInt(obj.v \div 2))
    ELSE IF t.k = "float" /\ cast_decimal /\ obj.k = "Decimal"
    THEN Returned(PyFloat(obj.v))
    ELSE IF t.k = "float" /\ obj.k = "int"
    THEN Returned(PyFloat(2 * obj.v))
    ELSE IF ~is_instance(obj, t, cast_decimal).ok
    THEN Raise("TypeError", "Object is not of json basic type", << >>)
    ELSE Returned(obj)

\* from_json_obj, lines 87-96: t is Decimal; InvalidOperation is caught.
DecodeDecimal(obj, cast_decimal) ==
    IF obj.k \in {"int", "Decimal"} THEN Returned(PyDecimal(Mag(obj)))
    ELSE IF obj.k = "str" /\ IsNumeral(obj) THEN Returned(PyDecimal(Mag(obj.v[3])))
    ELSE IF cast_decimal /\ obj.k = "float" THEN Returned(PyDecimal(obj.v))
    ELSE Raise("TypeError", "Object is not decimal.Decimal", << >>)

\* from_json_obj, lines 97-103: t is an enumeration.
DecodeEnum(obj, t) ==
    IF obj.k # "str" THEN Raise("TypeError", "Object is not a string", << >>)
    ELSE IF ~\E i \in 1..Len(t.members) : obj.v = Txt(t.members[i])
    THEN Raise("TypeError", "Object is not the string of a value of the enum", << >>)
    ELSE Returned(PyEnum(t.name, obj.v[2]))

\* KeysMatchFields without the test for keys that name no field.
KeysMatchFields_ExtraKeys(obj, t) ==
    \A f \in 1..Len(t.fields) :
       \/ KeyIndex(obj.v, PyStr(Txt(t.fields[f]))) # 0
       \/ HasDefault(t, t.fields[f])

\* from_json_obj, line 112: the keys of the object together with the names
\* of the fields with a default are exactly the names of the fields.
KeysMatchFields(obj, t) ==
    /\ \A i \in 1..Len(obj.v) :
          \E f \in 1..Len(t.fields) : obj.v[i][1] = PyStr(Txt(t.fields[f]))
    /\ \A f \in 1..Len(t.fields) :
          \/ KeyIndex(obj.v, PyStr(Txt(t.fields[f]))) # 0
          \/ HasDefault(t, t.fields[f])

\* from_json_obj, lines 119-126: converted_dict[field] for the f-th field,
\* whose key stands at index `at` of the object (0 when it is absent); the
\* call for the value of the field does not pass cast_decimal on.
DecodeField(at, obj, t, f) ==
    IF at = 0 THEN Returned(DefaultOf(t, t.fields[f]))
    ELSE from_json_obj(obj.v[at][2], t.types[f], TRUE)

\* from_json_obj, lines 127-129: t(**converted_dict) of the decoded fields rs.
NamedTupleValue(rs, t, cast_decimal) ==
    IF FirstRaise(rs) # 0 THEN rs[FirstRaise(rs)]
    ELSE AssertInstance(PyNamedTuple(t.name, Vals(rs)), t, cast_decimal)

\* from_json_obj, lines 104-129: t is a namedtuple type.
DecodeNamedTuple(obj, t, cast_decimal) ==
    IF obj.k \notin DictKinds
    THEN Raise("TypeError", "Object is not (ordered) dictionary", << >>)
    ELSE IF ~KeysMatchFields(obj, t)
    THEN Raise("TypeError", "Object does not have the required keys", << >>)
    ELSE NamedTupleValue([f \in 1..Len(t.fields) |->
                            DecodeField(KeyIndex(obj.v, PyStr(Txt(t.fields[f]))),
                                        obj, t, f)],
                         t, cast_decimal)

\* from_json_obj, lines 137-139: the value r that a type of the union
\* decoded, asserted to be an instance of the union.
MemberValue(r, t, cast_decimal) ==
    IF r.exc # "" THEN r ELSE AssertInstance(r.val, t, cast_decimal)

\* from_json_obj, lines 135-142: the outcome of the first attempt of rs that
\* did not raise TypeError.
FirstAttempt(rs) ==
    IF FirstOf({i \in 1..Len(rs) : rs[i].exc # "TypeError"}) = 0
    THEN Raise("TypeError", "Object is not convertible to any of the types", << >>)
    ELSE rs[FirstOf({i \in 1..Len(rs) : rs[i].exc # "TypeError"})]

\* from_json_obj, lines 132-142: the types of the union are tried in
\* sequence; a TypeError moves on to the next, any other exception escapes.
DecodeUnion(obj, t, cast_decimal) ==
    FirstAttempt([i \in 1..Len(t.args) |->
                    MemberValue(from_json_obj(obj, t.args[i], TRUE), t, cast_decimal)])

\* from_json_obj, lines 145-148: inst is is_instance(obj, t, cast_decimal).
LiteralValue(inst, obj) ==
    IF ~inst.ok THEN Raise("TypeError", "Object is not allowed", inst.trail)
    ELSE Returned(obj)

\* from_json_obj, lines 143-148: t is a Literal.
DecodeLiteral(obj, t, cast_decimal) ==
    LiteralValue(is_instance(obj, t, cast_decimal), obj)

\* set(...) and frozenset(...) of a decoded element r: it must be hashable.
ElementValue(r, t) ==
    IF r.exc = "" /\ t.k \in SetKinds /\ ~Hashable(r.val)
    THEN Raise("TypeError", "unhashable type", << >>)
    ELSE r

\* The collection of kind t.k that holds the decoded elements rs.
ElementsValue(rs, t, cast_decimal) ==
    IF FirstRaise(rs) # 0 THEN rs[FirstRaise(rs)]
    ELSE AssertInstance([k |-> t.k,
                         v |-> IF t.k \in SetKinds THEN Dedup(Vals(rs))
                               ELSE Vals(rs)],
                        t, cast_decimal)

\* from_json_obj, lines 149-189: List, Deque, Set, FrozenSet and Tuple are
\* decoded from a list; the elements of a set must be hashable.
DecodeElements(obj, t, cast_decimal) ==
    IF obj.k # "list"
    THEN Raise("TypeError", "Object is not list", << >>)
    ELSE IF t.k = "tuple" /\ ~t.variadic /\ Len(obj.v) # Len(t.args)
    THEN Raise("TypeError", "List is of incorrect length", << >>)
    ELSE ElementsValue([i \in 1..Len(obj.v) |->
                          ElementValue(from_json_obj(obj.v[i],
                                                     IF t.k = "tuple" /\ ~t.variadic
                                                     THEN t.args[i] ELSE t.args[1],
                                                     TRUE),
                                       t)],
                       t, cast_decimal)

\* from_json_obj, lines 203 and 220: from_json_obj(json.loads(field), K);
\* parsed is json.loads(field).
ParsedKey(parsed, K) ==
    IF parsed.exc # "" THEN parsed ELSE from_json_obj(parsed.val, K, TRUE)

\* from_json_obj, lines 196-203 and 213-220: converted_field for the key
\* `field` of the object; `ordered` tells the OrderedDict branch.
DecodeKey(field, K, cast_decimal, ordered) ==
    IF K.k \in JSON_BASE_TYPES
    THEN IF (IF ordered THEN IsInstanceBuiltin(field, K)
             ELSE is_instance(field, K, cast_decimal).ok)
         THEN Returned(field)
         ELSE Raise("TypeError", "Object key is not of json basic type", << >>)
    ELSE IF K.k = "enum" \/ K.k = "Literal"
    THEN from_json_obj(field, K, TRUE)
    ELSE ParsedKey(JsonLoads(field), K)

\* from_json_obj, lines 204 and 221: the converted item <<key, value>>.
ItemValue(key, val) ==
    IF key.exc # "" THEN key
    ELSE IF val.exc # "" THEN val
    ELSE IF ~Hashable(key.val) THEN Raise("TypeError", "unhashable type", << >>)
    ELSE Returned(<<key.val, val.val>>)

\* from_json_obj, lines 195-204 and 212-221: one turn of the loop over the
\* object.
DecodeItem(item, t, cast_decimal, ordered) ==
    ItemValue(DecodeKey(item[1], t.args[1], cast_decimal, ordered),
              from_json_obj(item[2], t.args[2], TRUE))

\* from_json_obj, lines 194-206 and 211-223: the dictionary of the converted
\* items rs.
MappingValue(rs, t, cast_decimal) ==
    IF FirstRaise(rs) # 0 THEN rs[FirstRaise(rs)]
    ELSE AssertInstance([k |-> IF t.k = "OrderedDict" THEN "OrderedDict" ELSE "dict",
                         v |-> InsertAll([i \in 1..Len(rs) |-> rs[i].val[1]],
                                         [i \in 1..Len(rs) |-> rs[i].val[2]],
                                         Len(rs))],
                        t, cast_decimal)

\* from_json_obj, lines 190-223: Dict and Mapping take a dict or an
\* OrderedDict and give a dict, OrderedDict takes and gives an OrderedDict.
DecodeMapping(obj, t, cast_decimal) ==
    IF t.k = "OrderedDict" /\ obj.k # "OrderedDict"
    THEN Raise("TypeError", "Object is not OrderedDict", << >>)
    ELSE IF obj.k \notin DictKinds
    THEN Raise("TypeError", "Object is not dict or OrderedDict", << >>)
    ELSE MappingValue([i \in 1..Len(obj.v) |->
                         DecodeItem(obj.v[i], t, cast_decimal, t.k = "OrderedDict")],
                      t, cast_decimal)

\* from_json_obj, lines 71-224: the branch of the descriptor, once the
\* descriptor has been validated.
DecodeKind(obj, t, cast_decimal) ==
    CASE t.k \in JSON_BASE_TYPES -> DecodeBase(obj, t, cast_decimal)
      [] t.k = "None" ->
            IF obj.k # "NoneType"
            THEN Raise("TypeError", "Object is not None", << >>)
            ELSE Returned(PyNone)
      [] t.k = "Decimal" -> DecodeDecimal(obj, cast_decimal)
      [] t.k = "enum" -> DecodeEnum(obj, t)
      [] t.k = "namedtuple" -> DecodeNamedTuple(obj, t, cast_decimal)
      [] t.k = "Union" -> DecodeUnion(obj, t, cast_decimal)
      [] t.k = "Literal" -> DecodeLiteral(obj, t, cast_decimal)
      [] t.k \in {"list", "deque", "set", "frozenset", "tuple"} ->
            DecodeElements(obj, t, cast_decimal)
      [] t.k \in {"dict", "OrderedDict", "Mapping"} ->
            DecodeMapping(obj, t, cast_decimal)
      [] OTHER -> Raise("AssertionError", "Should never reach this point", << >>)

\* from_json_obj, lines 65-70: enc is is_json_encodable(t, failure_callback).
DecodeValidated(enc, obj, t, cast_decimal) ==
    IF enc.exc # "" THEN Raise(enc.exc, "Should never reach this point", enc.trail)
    ELSE IF ~enc.ok THEN Raise("TypeError", "Type is not json-encodable.", enc.trail)
    ELSE DecodeKind(obj, t, cast_decimal)

from_json_obj(obj, t, cast_decimal) ==
    DecodeValidated(is_json_encodable(t), obj, t, cast_decimal)

(* ------------------------------------------------------------------ *)
(* The inputs of the calls: descriptors and, for each descriptor, the  *)
(* values and blobs tried against it.                                  *)
(* ------------------------------------------------------------------ *)

EnumT == EnumOf("EnumT", <<"Red", "Green", "Blue">>)

\* Literal["hi", 1]
Lit1 == LiteralOf(<<PyStr(Txt("hi")), PyInt(1)>>)

\* Literal[EnumT.Red]: a constant that is not of JSON basic type
LitEnum == LiteralOf(<<PyEnum("EnumT", "Red")>>)

\* class A(NamedTuple): name: str; value: int = 0
NtA == NamedTupleOf("A", <<"name", "value">>, <<StrT, IntT>>, <<<<"value", PyInt(0)>>>>)

\* class B(NamedTuple): left: float; right: Decimal
NtB == NamedTupleOf("B", <<"left", "right">>, <<FloatT, DecimalT>>, << >>)

\* class D(NamedTuple): value: int = Decimal(2)
NtD == NamedTupleOf("D", <<"value">>, <<IntT>>, <<<<"value", PyDecimal(4)>>>>)

\* class E(NamedTuple): value: int = "hi", a default of the wrong type
NtE == NamedTupleOf("E", <<"value">>, <<IntT>>, <<<<"value", PyStr(Txt("hi"))>>>>)

\* class F(NamedTuple): value: C, a field of an unsupported type
NtF == NamedTupleOf("F", <<"value">>, <<ClassC>>, << >>)

\* class G(NamedTuple): value: List[int], a field that is not keyable
NtG == NamedTupleOf("G", <<"value">>, <<ListOf(IntT)>>, << >>)

\* class P(NamedTuple): x: int; y: int
NtP == NamedTupleOf("P", <<"x", "y">>, <<IntT, IntT>>, << >>)

LeafTypes == {BoolT, IntT, FloatT, StrT, NoneT, DecimalT, EnumT, Lit1}

OddTypes == {NoneAlias, ComplexT, AnyT, ClassC, LitEnum}

NamedTupleTypes == {NtA, NtB, NtD, NtE, NtF, NtG, NtP}

ElemTypes == {BoolT, IntT, FloatT, StrT, DecimalT, EnumT, ComplexT, ClassC}

PairTypes == {IntT, FloatT, StrT}

MemberTypes == {BoolT, IntT, FloatT, StrT, NoneT, DecimalT, EnumT}

KeyTypes ==
    {BoolT, IntT, FloatT, StrT, NoneT, DecimalT, EnumT, Lit1,
     TupleFix(<<IntT, IntT>>), TupleVar(StrT), FrozenSetOf(StrT),
     UnionOf(<<IntT, StrT>>), NtP, ListOf(IntT), NtG}

ValueTypes == {StrT}

\* The key types tried with Mapping, whose code is that of Dict.
MappingKeyTypes == {StrT, IntT, DecimalT, TupleFix(<<IntT, IntT>>), ListOf(IntT)}

\* Descriptors whose members are themselves composite.
NestedTypes ==
    {ListOf(TupleFix(<<IntT, IntT>>)), ListOf(NtA), ListOf(DictOf(IntT, StrT)),
     ListOf(UnionOf(<<IntT, StrT>>)), ListOf(ListOf(DecimalT)),
     DictOf(StrT, ListOf(DecimalT)), DictOf(StrT, FloatT), DictOf(StrT, DecimalT),
     DictOf(StrT, IntT), DictOf(IntT, IntT), OrderedDictOf(StrT, IntT),
     UnionOf(<<ListOf(IntT), TupleVar(IntT)>>),
     UnionOf(<<DictOf(DecimalT, StrT), DictOf(StrT, StrT)>>),
     UnionOf(<<NtA, DictOf(StrT, StrT)>>),
     DictOf(UnionOf(<<EnumT, StrT>>), StrT),
     UnionOf(<<IntT, ClassC>>), TupleFix(<<IntT, DecimalT>>),
     TupleFix(<<IntT, ClassC>>), DictOf(StrT, ClassC), DictOf(ClassC, StrT)}

Descs ==
    LeafTypes \union OddTypes \union NamedTupleTypes \union NestedTypes
    \union {ListOf(e) : e \in ElemTypes} \union {SetOf(e) : e \in ElemTypes}
    \union {FrozenSetOf(e) : e \in ElemTypes} \union {DequeOf(e) : e \in ElemTypes}
    \union {TupleVar(e) : e \in ElemTypes}
    \union {TupleFix(<<a, b>>) : a \in PairTypes, b \in PairTypes}
    \union {UnionOf(<<a, b>>) : a \in MemberTypes, b \in MemberTypes}
    \union {DictOf(K, V) : K \in KeyTypes, V \in ValueTypes}
    \union {OrderedDictOf(K, V) : K \in KeyTypes, V \in ValueTypes}
    \union {MappingOf(K, V) : K \in MappingKeyTypes, V \in ValueTypes}

Hi == PyStr(Txt("hi"))
Red == PyStr(Txt("Red"))
OnePointFive == PyStr(JsonText(PyFloat(3)))

\* The values tried at the top of a call.
Atoms ==
    {PyBool(TRUE), PyBool(FALSE), PyFloat(3), PyFloat(2), PyDecimal(4), PyDecimal(3),
     Hi, Red, OnePointFive, PyNone, PyEnum("EnumT", "Red"), PyComplex}
    \union {PyInt(n) : n \in 0..MaxInt}

\* The values tried as a member of a container of member type t.
Near(t) ==
    CASE t.k = "bool" -> {PyBool(TRUE), PyBool(FALSE), PyInt(1)}
      [] t.k = "int" ->
            {PyInt(n) : n \in 0..MaxInt} \union {PyBool(TRUE), PyDecimal(4), PyDecimal(3)}
      [] t.k = "float" -> {PyFloat(3), PyInt(1), PyBool(TRUE), PyDecimal(3)}
      [] t.k = "str" -> {Hi, Red, OnePointFive, PyInt(1)}
      [] t.k = "Decimal" -> {PyDecimal(3), PyDecimal(4), PyInt(1), OnePointFive, Hi}
      [] t.k = "NoneType" -> {PyNone, PyInt(0)}
      [] t.k = "enum" -> {PyEnum("EnumT", "Red"), PyEnum("EnumT", "Green"), Red, Hi}
      [] t.k = "Literal" -> {Hi, PyInt(1), PyBool(TRUE), PyFloat(2), Red}
      [] OTHER -> {PyComplex, PyInt(1)}

\* The values tried two levels down.
Tiny(t) ==
    CASE t.k = "bool" -> {PyBool(TRUE), PyInt(1)}
      [] t.k = "int" -> {PyInt(1), PyDecimal(4)}
      [] t.k = "float" -> {PyFloat(3), PyDecimal(3)}
      [] t.k = "str" -> {Hi, PyInt(1)}
      [] t.k = "Decimal" -> {PyDecimal(3), OnePointFive}
      [] t.k = "NoneType" -> {PyNone}
      [] t.k = "enum" -> {PyEnum("EnumT", "Red"), Red}
      [] t.k = "Literal" -> {Hi, PyInt(1)}
      [] OTHER -> {PyComplex}

\* The sequences over S of length at most n.
SeqsUpTo(S, n) == UNION {[1..m -> S] : m \in 0..n}

\* No two elements of s are ==, and all can be hashed: s can be the
\* elements of a set or the keys of a dict.
DistinctHashable(s) ==
    /\ \A i \in 1..Len(s) : Hashable(s[i])
    /\ \A i, j \in 1..Len(s) : i # j => ~PyEq(s[i], s[j])

\* The longest container tried at nesting depth d.
LenAt(d) == IF d = 0 THEN MaxLen ELSE 1

RECURSIVE Cands(_, _)

\* The products of the candidates of the descriptors ts, one per position.
RECURSIVE Products(_, _)
Products(ts, d) ==
    IF ts = << >> THEN {<< >>}
    ELSE {Append(p, x) : p \in Products(SubSeq(ts, 1, Len(ts) - 1), d),
                         x \in Cands(ts[Len(ts)], d)}

\* The keys tried for a mapping of key type K: values of K and, when the
\* encoder dumps the keys of K to strings, the strings it makes of them.
KeyCands(K, d) ==
    Cands(K, d) \union
    (IF KeysAreDumped(K) /\ is_json_encodable(K).ok
     THEN {EncodeKey(x, K).val : x \in {y \in Cands(K, d) : EncodeKey(y, K).exc = ""}}
          \union {Hi}
     ELSE {})

\* The objects tried for a namedtuple type: for every choice of fields,
\* with or without an unknown key, the dict and the OrderedDict of them.
ObjectCands(t, d) ==
    LET n == Len(t.fields)
        picks == [1..n -> BOOLEAN]
        items(p, vals) ==
            LET idx == {i \in 1..n : p[i]}
                RECURSIVE build(_)
                build(m) == IF m = 0 THEN << >>
                            ELSE IF p[m]
                            THEN Append(build(m - 1), <<PyStr(Txt(t.fields[m])), vals[m]>>)
                            ELSE build(m - 1)
            IN build(n)
    IN UNION {{PyOrderedDict(items(p, vals)), PyDict(items(p, vals)),
               PyOrderedDict(Append(items(p, vals), <<PyStr(Txt("extra")), PyInt(1)>>))}
              : p \in picks, vals \in Products(t.types, d + 1)}

\* The values and blobs tried against descriptor t at nesting depth d.
Cands(t, d) ==
    CASE t.k = "Union" ->
            UNION {Cands(t.args[i], IF d = 0 THEN 0 ELSE d + 1) : i \in 1..Len(t.args)}
      [] t.k \in {"list", "set", "frozenset", "deque"} \/ (t.k = "tuple" /\ t.variadic) ->
            LET ss == SeqsUpTo(Cands(t.args[1], d + 1), LenAt(d))
            IN {PyList(s) : s \in ss}
               \union {[k |-> t.k, v |-> s] :
                         s \in {x \in ss : t.k \in SetKinds => DistinctHashable(x)}}
               \union (IF d = 0 THEN {PyInt(1), Hi} ELSE {})
      [] t.k = "tuple" /\ ~t.variadic ->
            LET ps == Products(t.args, d + 1)
            IN {PyList(s) : s \in ps} \union {PyTuple(s) : s \in ps}
               \union {PyList(SubSeq(s, 1, Len(s) - 1)) : s \in ps}
               \union {PyTuple(SubSeq(s, 1, Len(s) - 1)) : s \in ps}
      [] t.k \in {"dict", "OrderedDict", "Mapping"} ->
            LET pairs == {<<x, y>> : x \in KeyCands(t.args[1], d + 1),
                                     y \in Cands(t.args[2], d + 2)}
                ss == {s \in SeqsUpTo(pairs, LenAt(d)) :
                         DistinctHashable([i \in 1..Len(s) |-> s[i][1]])}
            IN {PyDict(s) : s \in ss} \union {PyOrderedDict(s) : s \in ss}
               \union (IF d = 0 THEN {PyList(<<PyInt(1)>>)} ELSE {})
      [] t.k = "namedtuple" ->
            {PyNamedTuple(t.name, s) : s \in Products(t.types, d + 1)}
            \union (IF d = 0
                    THEN {PyTuple(s) : s \in Products(t.types, d + 1)}
                         \union {PyList(s) : s \in Products(t.types, d + 1)}
                         \union ObjectCands(t, d)
                    ELSE {PyOrderedDict([i \in 1..Len(s) |-> <<PyStr(Txt(t.fields[i])), s[i]>>])
                            : s \in Products(t.types, d + 1)})
      [] OTHER -> IF d = 0 THEN Atoms ELSE IF d = 1 THEN Near(t) ELSE Tiny(t)

(* ------------------------------------------------------------------ *)
(* The state machine: one action per function of the library.  A call  *)
(* records its arguments in `call` and its outcome in `ret`.           *)
(* ------------------------------------------------------------------ *)

Args(fn, t, obj, cast_decimal, use_decimal) ==
    [fn |-> fn, t |-> t, obj |-> obj,
     cast_decimal |-> cast_decimal, use_decimal |-> use_decimal]

\* The caller holds a descriptor and an object and has called nothing yet.
Init ==
    \E t \in Descs : \E obj \in Cands(t, 0) :
       /\ call = Args("none", t, obj, TRUE, FALSE)
       /\ ret = Returned(NoValue)
       /\ src = NoValue

\* is_typecheckable(t, failure_callback)
IsTypecheckable ==
    /\ call.fn = "none"
    /\ call' = Args("is_typecheckable", call.t, NoValue, TRUE, FALSE)
    /\ ret' = is_typecheckable(call.t)
    /\ src' = NoValue

\* is_keyable(t, failure_callback)
IsKeyable ==
    /\ call.fn = "none"
    /\ call' = Args("is_keyable", call.t, NoValue, TRUE, FALSE)
    /\ ret' = is_keyable(call.t)
    /\ src' = NoValue

\* is_json_encodable(t, failure_callback)
IsJsonEncodable ==
    /\ call.fn = "none"
    /\ call' = Args("is_json_encodable", call.t, NoValue, TRUE, FALSE)
    /\ ret' = is_json_encodable(call.t)
    /\ src' = NoValue

\* is_instance(obj, t, failure_callback, cast_decimal)
IsInstance ==
    /\ call.fn = "none"
    /\ \E cast_decimal \in BOOLEAN :
          /\ call' = Args("is_instance", call.t, call.obj, cast_decimal, FALSE)
          /\ ret' = is_instance(call.obj, call.t, cast_decimal)
    /\ src' = NoValue

\* to_json_obj(obj, t, use_decimal)
ToJsonObj ==
    /\ call.fn = "none"
    /\ \E use_decimal \in BOOLEAN :
          /\ call' = Args("to_json_obj", call.t, call.obj, TRUE, use_decimal)
          /\ ret' = to_json_obj(call.obj, call.t, use_decimal)
    /\ src' = NoValue

\* from_json_obj(obj, t, cast_decimal) on a blob of the caller
FromJsonObj ==
    /\ call.fn = "none"
    /\ \E cast_decimal \in BOOLEAN :
          /\ call' = Args("from_json_obj", call.t, call.obj, cast_decimal, FALSE)
          /\ ret' = from_json_obj(call.obj, call.t, cast_decimal)
    /\ src' = NoValue

\* from_json_obj(to_json_obj(v, t), t): the decoder is given what the
\* encoder has just returned for v, with the same descriptor.
RoundTrip ==
    /\ call.fn = "to_json_obj"
    /\ ~call.use_decimal
    /\ ret.exc = ""
    /\ call' = Args("from_json_obj", call.t, ret.val, TRUE, FALSE)
    /\ ret' = from_json_obj(ret.val, call.t, TRUE)
    /\ src' = call.obj

Next ==
    \/ IsTypecheckable
    \/ IsKeyable
    \/ IsJsonEncodable
    \/ IsInstance
    \/ ToJsonObj
    \/ FromJsonObj
    \/ RoundTrip

Spec == Init /\ [][Next]_vars

(* ------------------------------------------------------------------ *)
(* Properties of the round trip                                        *)
(* ------------------------------------------------------------------ *)

\* The decoder has been given what the encoder returned for src.
Decoded == call.fn = "from_json_obj" /\ src # NoValue

\* C1: whenever the encoder has returned a blob for a value src that
\* conforms to an encodable descriptor, the decoder, given that blob and the
\* same descriptor, returns a value that conforms to the descriptor and is
\* equal to src.  Equality is Python's ==, as in the round trip test: it
\* tells the container kinds apart, a str from a Decimal, a str from an
\* enumeration member, and ignores the order of the elements of a set.
C1_RoundTrip ==
    Decoded =>
       /\ ret.exc = ""
       /\ PyEq(ret.val, src)
       /\ is_instance(ret.val, call.t, TRUE).ok

(* ------------------------------------------------------------------ *)
(* Properties of the decoder on a Union                                *)
(* ------------------------------------------------------------------ *)

\* A call of the decoder with an encodable descriptor of kind `kind`.
DecodesKind(kind) ==
    /\ call.fn = "from_json_obj"
    /\ call.t.k = kind
    /\ is_json_encodable(call.t).ok

\* The first type of the union t, in declared order, that decodes obj on
\* its own; 0 when none does.
FirstDecoding(obj, t, cast_decimal) ==
    LET S == {i \in 1..Len(t.args) : from_json_obj(obj, t.args[i], cast_decimal).exc = ""}
    IN IF S = {} THEN 0 ELSE CHOOSE i \in S : \A j \in S : i <= j

\* C2: for a Union the decoder returns what the first type in declared
\* order that decodes the blob returns for it, the types before it that
\* fail being skipped, and raises a fault only when no type decodes it.
\* Stated for the calls that leave cast_decimal at its default, for which
\* the types of the union are decoded under the flag of the call.
C2_UnionDeclaredOrder ==
    DecodesKind("Union") /\ call.cast_decimal =>
       LET i == FirstDecoding(call.obj, call.t, TRUE)
       IN IF i = 0 THEN ret.exc # ""
          ELSE /\ ret.exc = ""
               /\ ret.val = from_json_obj(call.obj, call.t.args[i], TRUE).val

(* ------------------------------------------------------------------ *)
(* Properties of the validation done by the encoder                    *)
(* ------------------------------------------------------------------ *)

C4_OnlyTypeError ==
    call.fn = "from_json_obj" => ret.exc \in {"", "TypeError"}

(* ------------------------------------------------------------------ *)
(* Properties of the decoder on a namedtuple                           *)
(* ------------------------------------------------------------------ *)

KeyNames(obj) == {obj.v[i][1] : i \in 1..Len(obj.v)}

FieldNames(t) == {PyStr(Txt(t.fields[i])) : i \in 1..Len(t.fields)}

DefaultedNames(t) == {PyStr(Txt(t.defaults[i][1])) : i \in 1..Len(t.defaults)}

\* The value under the key named n in the object blob obj.
ValueAt(obj, n) == obj.v[CHOOSE i \in 1..Len(obj.v) : obj.v[i][1] = PyStr(Txt(n))][2]

ObjectBlob(t, items) ==
    PyOrderedDict([i \in 1..Len(items) |-> <<PyStr(Txt(t.fields[i])), items[i]>>])

\* C6: for a namedtuple type the decoder takes an array with one element
\* per field, in the order of the fields, and does with it what it does with
\* the object blob of the same elements.
C6_PositionalArray ==
    /\ DecodesKind("namedtuple")
    /\ call.obj.k = "list"
    /\ Len(call.obj.v) = Len(call.t.fields)
    => LET same == from_json_obj(ObjectBlob(call.t, call.obj.v), call.t, call.cast_decimal)
       IN ret.exc = same.exc /\ ret.val = same.val

(* ------------------------------------------------------------------ *)
(* Properties of Decimals where an int or a float is expected          *)
(* ------------------------------------------------------------------ *)

RECURSIVE DecimalShaped(_, _)
\* obj has the shape t asks for, with a Decimal wherever t asks for an int
\* or a float and a str wherever it asks for a str: whether obj conforms to
\* t rests on the Decimals alone.
DecimalShaped(obj, t) ==
    CASE t.k \in {"int", "float"} -> obj.k = "Decimal"
      [] t.k = "str" -> obj.k = "str"
      [] t.k \in {"list", "set", "frozenset", "deque"} \/ (t.k = "tuple" /\ t.variadic) ->
            /\ obj.k = t.k
            /\ \A i \in 1..Len(obj.v) : DecimalShaped(obj.v[i], t.args[1])
      [] t.k = "tuple" /\ ~t.variadic ->
            /\ obj.k = "tuple"
            /\ Len(obj.v) = Len(t.args)
            /\ \A i \in 1..Len(obj.v) : DecimalShaped(obj.v[i], t.args[i])
      [] t.k \in {"dict", "Mapping"} ->
            /\ obj.k \in DictKinds
            /\ \A i \in 1..Len(obj.v) :
                  DecimalShaped(obj.v[i][1], t.args[1]) /\ DecimalShaped(obj.v[i][2], t.args[2])
      [] t.k = "OrderedDict" ->
            /\ obj.k = "OrderedDict"
            /\ \A i \in 1..Len(obj.v) :
                  DecimalShaped(obj.v[i][1], t.args[1]) /\ DecimalShaped(obj.v[i][2], t.args[2])
      [] t.k = "namedtuple" ->
            /\ obj.k = "namedtuple"
            /\ obj.v[1] = t.name
            /\ Len(obj.v[2]) = Len(t.types)
            /\ \A i \in 1..Len(t.types) : DecimalShaped(obj.v[2][i], t.types[i])
      [] t.k = "Union" ->
            /\ obj.k = "Decimal"
            /\ \A i \in 1..Len(t.args) : t.args[i].k \in {"int", "float"}
      [] OTHER -> FALSE

RECURSIVE HoldsDecimal(_)
\* Some leaf of obj is a Decimal.
HoldsDecimal(obj) ==
    CASE obj.k = "Decimal" -> TRUE
      [] obj.k \in SequenceKinds \union SetKinds ->
            \E i \in 1..Len(obj.v) : HoldsDecimal(obj.v[i])
      [] obj.k \in DictKinds ->
            \E i \in 1..Len(obj.v) : HoldsDecimal(obj.v[i][1]) \/ HoldsDecimal(obj.v[i][2])
      [] obj.k = "namedtuple" -> \E i \in 1..Len(obj.v[2]) : HoldsDecimal(obj.v[2][i])
      [] OTHER -> FALSE

RECURSIVE DecimalsConform(_, _, _)
\* What the casting rule says of a DecimalShaped obj: a Decimal conforms to
\* int when the flag is set and it is integral, to float when the flag is
\* set; a container conforms when all its members do, a Union when the
\* Decimal conforms to one of its types.
DecimalsConform(obj, t, cast_decimal) ==
    CASE t.k = "int" -> cast_decimal /\ Mag(obj) % 2 = 0
      [] t.k = "float" -> cast_decimal
      [] t.k = "str" -> TRUE
      [] t.k \in {"list", "set", "frozenset", "deque"} \/ (t.k = "tuple" /\ t.variadic) ->
            \A i \in 1..Len(obj.v) : DecimalsConform(obj.v[i], t.args[1], cast_decimal)
      [] t.k = "tuple" /\ ~t.variadic ->
            \A i \in 1..Len(obj.v) : DecimalsConform(obj.v[i], t.args[i], cast_decimal)
      [] t.k \in {"dict", "Mapping", "OrderedDict"} ->
            \A i \in 1..Len(obj.v) :
               /\ DecimalsConform(obj.v[i][1], t.args[1], cast_decimal)
               /\ DecimalsConform(obj.v[i][2], t.args[2], cast_decimal)
      [] t.k = "namedtuple" ->
            \A i \in 1..Len(t.types) : DecimalsConform(obj.v[2][i], t.types[i], cast_decimal)
      [] t.k = "Union" ->
            \E i \in 1..Len(t.args) : DecimalsConform(obj, t.args[i], cast_decimal)
      [] OTHER -> FALSE

\* C7: is_instance, with cast_decimal set, takes a Decimal for an int
\* exactly when the Decimal is integral and takes every Decimal for a float;
\* with cast_decimal not set it takes no Decimal for an int or a float; and
\* so at every depth: a value of the shape of its descriptor, with Decimals
\* where ints and floats are expected, conforms exactly when each of its
\* Decimals does under the flag of the call.  The descriptors are those
\* is_typecheckable accepts.
C7_DecimalCasting ==
    /\ call.fn = "is_instance"
    /\ is_typecheckable(call.t).ok
    /\ DecimalShaped(call.obj, call.t)
    =>
       /\ ret.exc = ""
       /\ ret.ok <=> DecimalsConform(call.obj, call.t, call.cast_decimal)

\* is_instance has answered, with and without the cast, for a container that
\* holds a Decimal where its descriptor expects an int or a float.
C7_Witness ==
    /\ call.fn = "is_instance"
    /\ is_typecheckable(call.t).ok
    /\ DecimalShaped(call.obj, call.t)
    /\ call.t.k \notin {"int", "float", "Union"}
    /\ HoldsDecimal(call.obj)
    /\ ret.ok = call.cast_decimal

RECURSIVE DecimalForNumber(_, _)
\* The blob obj holds a Decimal at a position where t expects an int or a
\* float: at the top, or in a blob for a sequence, a tuple, the values of a
\* mapping, the fields of a namedtuple, or a Union of ints and floats.
DecimalForNumber(obj, t) ==
    CASE t.k \in {"int", "float"} -> obj.k = "Decimal"
      [] t.k \in {"list", "set", "frozenset", "deque"} \/ (t.k = "tuple" /\ t.variadic) ->
            /\ obj.k = "list"
            /\ \E i \in 1..Len(obj.v) : DecimalForNumber(obj.v[i], t.args[1])
      [] t.k = "tuple" /\ ~t.variadic ->
            /\ obj.k = "list"
            /\ Len(obj.v) = Len(t.args)
            /\ \E i \in 1..Len(obj.v) : DecimalForNumber(obj.v[i], t.args[i])
      [] t.k \in {"dict", "Mapping", "OrderedDict"} ->
            /\ obj.k \in DictKinds
            /\ \E i \in 1..Len(obj.v) : DecimalForNumber(obj.v[i][2], t.args[2])
      [] t.k = "namedtuple" ->
            /\ obj.k \in DictKinds
            /\ \E i \in 1..Len(obj.v) : \E f \in 1..Len(t.fields) :
                  /\ obj.v[i][1] = PyStr(Txt(t.fields[f]))
                  /\ DecimalForNumber(obj.v[i][2], t.types[f])
      [] t.k = "Union" ->
            /\ obj.k = "Decimal"
            /\ \A i \in 1..Len(t.args) : t.args[i].k \in {"int", "float"}
      [] OTHER -> FALSE

\* C8: from_json_obj with cast_decimal not set raises TypeError for every
\* blob that holds a Decimal where the descriptor expects an int or a
\* float, at the top or nested; with cast_decimal set it decodes an integral
\* Decimal to the int of its value where an int is expected and any Decimal
\* to the float of its value where a float is expected.
C8_DecoderCasting ==
    call.fn = "from_json_obj" /\ is_json_encodable(call.t).ok =>
       /\ ~call.cast_decimal /\ DecimalForNumber(call.obj, call.t) => ret.exc = "TypeError"
       /\ call.cast_decimal /\ call.obj.k = "Decimal" /\ call.t = FloatT =>
             ret = Returned(PyFloat(call.obj.v))
       /\ call.cast_decimal /\ call.obj.k = "Decimal" /\ call.t = IntT /\ Mag(call.obj) % 2 = 0 =>
             ret = Returned(PyInt(Mag(call.obj) \div 2))

(* ------------------------------------------------------------------ *)
(* Properties of use_decimal                                           *)
(* ------------------------------------------------------------------ *)

\* C9: to_json_obj with use_decimal set returns the Decimals of a Decimal
\* descriptor as they are, at the top and as the elements of a list, set,
\* frozenset, deque or tuple of Decimals, whose encoding is then the list of
\* the elements; with use_decimal not set it returns str(d) in place of
\* each Decimal d.
C9_RawDecimal ==
    call.fn = "to_json_obj" /\ ret.exc = "" =>
       /\ call.t = DecimalT =>
             ret.val = (IF call.use_decimal THEN call.obj ELSE DecimalStr(call.obj))
       /\ call.t \in {ListOf(DecimalT), SetOf(DecimalT), FrozenSetOf(DecimalT),
                      DequeOf(DecimalT), TupleVar(DecimalT)} =>
             ret.val = PyList([i \in 1..Len(call.obj.v) |->
                                 IF call.use_decimal THEN call.obj.v[i]
                                 ELSE DecimalStr(call.obj.v[i])])

(* ------------------------------------------------------------------ *)
(* Properties of bool, int and float                                   *)
(* ------------------------------------------------------------------ *)

Members(t) == IF t.k = "namedtuple" THEN t.types ELSE t.args

\* Every member descriptor of t is JSON-encodable.
MembersEncodable(t) ==
    \A i \in 1..Len(Members(t)) : is_json_encodable(Members(t)[i]).ok

\* Every default of the namedtuple type t conforms to the type of its field.
DefaultsConform(t) ==
    \A j \in 1..Len(t.defaults) :
       is_instance(t.defaults[j][2], t.types[FieldIndex(t, t.defaults[j][1])], TRUE).ok

\* What is_json_encodable answers for a mapping type and for a list, set,
\* frozenset, deque, tuple or Union, and that what it accepts is
\* typecheckable.
EncodableGenerics ==
    /\ ret.exc = ""
    /\ call.t.k \in {"dict", "OrderedDict", "Mapping"} =>
          (ret.ok <=> /\ is_keyable(call.t.args[1]).ok
                      /\ is_json_encodable(call.t.args[1]).ok
                      /\ is_json_encodable(call.t.args[2]).ok)
    /\ call.t.k \in {"list", "set", "frozenset", "deque", "tuple", "Union"} =>
          (ret.ok <=> MembersEncodable(call.t))
    /\ call.t = MappingOf(ListOf(IntT), StrT) => ~ret.ok
    /\ call.t = MappingOf(TupleFix(<<IntT, IntT>>), StrT) => ret.ok
    /\ ret.ok => is_typecheckable(call.t).ok

\* C11 as claimed: is_json_encodable accepts a mapping type exactly when its
\* key type is keyable and JSON-encodable and its value type is
\* JSON-encodable, and a list, set, frozenset, deque, tuple, Union or
\* namedtuple type exactly when every member type is JSON-encodable;
\* Mapping[List[int], str] is rejected, Mapping[Tuple[int, int], str] is
\* accepted, and what it accepts is typecheckable.
C11_EncodableMembers ==
    call.fn = "is_json_encodable" =>
       /\ EncodableGenerics
       /\ call.t.k = "namedtuple" => (ret.ok <=> MembersEncodable(call.t))

\* C11 as amended: the same, but a namedtuple type is accepted exactly when
\* every field type is JSON-encodable and every default conforms to the
\* type of its field.
C11_EncodableMembersAndDefaults ==
    call.fn = "is_json_encodable" =>
       /\ EncodableGenerics
       /\ call.t.k = "namedtuple" =>
             (ret.ok <=> MembersEncodable(call.t) /\ DefaultsConform(call.t))

\* is_json_encodable has rejected a namedtuple type whose field types are
\* all JSON-encodable and whose default is not of the type of its field.
C11_Witness ==
    /\ call.fn = "is_json_encodable"
    /\ call.t.k = "namedtuple"
    /\ MembersEncodable(call.t)
    /\ ~DefaultsConform(call.t)
    /\ ~ret.ok

(* ------------------------------------------------------------------ *)
(* Properties of is_keyable                                            *)
(* ------------------------------------------------------------------ *)

\* Every member descriptor of t is keyable.
MembersKeyable(t) ==
    \A i \in 1..Len(Members(t)) : is_keyable(Members(t)[i]).ok

\* C12: is_keyable answers False for every List, Set, Deque, Dict,
\* OrderedDict and Mapping type; True for the JSON basic types, None,
\* Decimal, the enumerations and the Literals; and, for a FrozenSet, a
\* Union, a variadic or fixed Tuple and a namedtuple type, True exactly
\* when every member type is keyable.
C12_Keyable ==
    call.fn = "is_keyable" =>
       /\ call.t.k \in {"list", "set", "deque", "dict", "OrderedDict", "Mapping"} =>
             ret.exc = "" /\ ~ret.ok
       /\ call.t.k \in JSON_BASE_TYPES \union {"None", "Decimal", "enum", "Literal"} =>
             ret.exc = "" /\ ret.ok
       /\ call.t.k \in {"frozenset", "Union", "tuple", "namedtuple"} =>
             ret.exc = "" /\ (ret.ok <=> MembersKeyable(call.t))

(* ------------------------------------------------------------------ *)
(* Properties of is_typecheckable                                      *)
(* ------------------------------------------------------------------ *)

\* Every member descriptor of t is typecheckable.
MembersTypecheckable(t) ==
    \A i \in 1..Len(Members(t)) : is_typecheckable(Members(t)[i]).ok

\* The kinds of descriptor of the algebra: the primitives (None standing
\* for NoneType), Decimal, enumerations, Literals, Unions, the sequences,
\* tuples, the mappings and the namedtuple types.
AlgebraKinds ==
    {"bool", "int", "float", "str", "NoneType", "None", "Decimal", "enum", "Literal",
     "Union", "list", "set", "frozenset", "deque", "tuple",
     "dict", "OrderedDict", "Mapping", "namedtuple"}

\* What is_typecheckable answers for a Union, a sequence, a tuple and a
\* mapping, for a namedtuple type and for a Literal.
TypecheckableComposites ==
    /\ ret.exc = ""
    /\ call.t.k \in {"Union", "list", "set", "frozenset", "deque", "tuple",
                     "dict", "OrderedDict", "Mapping"} =>
          (ret.ok <=> MembersTypecheckable(call.t))
    /\ call.t.k = "namedtuple" =>
          (ret.ok <=> MembersTypecheckable(call.t) /\ DefaultsConform(call.t))
    /\ call.t.k = "Literal" =>
          (ret.ok <=> \A i \in 1..Len(call.t.args) : call.t.args[i].k \in JSON_BASE_TYPES)

MappingKinds == {"dict", "OrderedDict", "Mapping"}

\* to_json_obj was called with a mapping descriptor and returned.
EncodedMapping ==
    /\ call.fn = "to_json_obj"
    /\ call.t.k \in MappingKinds
    /\ ret.exc = ""

\* The encodings of the key `key` under the key descriptor K.
EncodedKeys(key, K) ==
    {to_json_obj(key, K, ud).val : ud \in BOOLEAN}

\* The text of x without spaces after its separators.
CompactStr(x) ==
    PyStr(<<"json", IF HasSeparator(AsParsed(x)) THEN "compact" ELSE "plain", AsParsed(x)>>)

\* The keys of the returned object are, item by item of the mapping
\* encoded, `direct` of the encoded key when the kind of the key descriptor
\* is in `kinds` and `stringified` of it otherwise.
OutputKeysAre(kinds, Stringified(_)) ==
    /\ \A i \in 1..Len(call.obj.v) :
          \E e \in EncodedKeys(call.obj.v[i][1], call.t.args[1]) :
             (IF call.t.args[1].k \in kinds THEN e ELSE Stringified(e)) \in KeyNames(ret.val)
    /\ \A key \in KeyNames(ret.val) :
          \E i \in 1..Len(call.obj.v) :
             \E e \in EncodedKeys(call.obj.v[i][1], call.t.args[1]) :
                key = (IF call.t.args[1].k \in kinds THEN e ELSE Stringified(e))

JsonDumped(x) == JsonDumps(x).val

SameOutcome(a, b) == (a.exc = "") = (b.exc = "") /\ a.val = b.val

\* The outcome r of decoding the key `field` under the key descriptor K is
\* that of decoding the key as it stands, with no parsing: a key of JSON basic
\* type is returned itself or refused for not conforming, any other key is
\* decoded by from_json_obj.
DecodedAsItStands(r, field, K) ==
    IF K.k \in JSON_BASE_TYPES
    THEN IF r.exc = "" THEN r.val = field
         ELSE r.exc = "TypeError" /\ r.why = "Object key is not of json basic type"
    ELSE SameOutcome(r, from_json_obj(field, K, TRUE))

\* The outcome r of decoding the key `field` under the key descriptor K is
\* the one that fits the form in which to_json_obj writes keys of descriptor
\* K: parsed from a string and then decoded when to_json_obj dumps the keys,
\* decoded as it stands otherwise.
KeyInEncodedForm(r, field, K) ==
    IF KeysAreDumped(K) THEN SameOutcome(r, ParsedKey(JsonLoads(field), K))
    ELSE DecodedAsItStands(r, field, K)

\* C15: the decoder reads a mapping key in the form in which the encoder
\* writes it.  For every keyable, JSON-encodable key descriptor K and every
\* key of the object handed to from_json_obj, the Dict/Mapping branch and
\* the OrderedDict branch parse the key from a string and decode it
\* exactly when to_json_obj dumps keys of descriptor K, and decode the key
\* as it stands exactly when to_json_obj uses the encoded key.
C15_KeyFormsAgree ==
    (/\ call.fn = "from_json_obj"
     /\ call.t.k \in MappingKinds
     /\ call.obj.k \in DictKinds
     /\ is_keyable(call.t.args[1]).ok
     /\ is_json_encodable(call.t.args[1]).ok) =>
       \A i \in 1..Len(call.obj.v) :
          \A ordered \in BOOLEAN :
             KeyInEncodedForm(DecodeKey(call.obj.v[i][1], call.t.args[1],
                                        call.cast_decimal, ordered),
                              call.obj.v[i][1], call.t.args[1])

RECURSIVE KeysAmong(_, _)
\* Every dictionary within the JSON object x, x itself included, has keys
\* of the kinds `kinds` only.
KeysAmong(x, kinds) ==
    CASE x.k = "list" -> \A i \in 1..Len(x.v) : KeysAmong(x.v[i], kinds)
      [] x.k \in DictKinds ->
            \A i \in 1..Len(x.v) : x.v[i][1].k \in kinds /\ KeysAmong(x.v[i][2], kinds)
      [] OTHER -> TRUE

CheckedMapping ==
    /\ call.fn = "is_instance"
    /\ call.t.k \in MappingKinds
    /\ ret.exc = ""

\* Every key of the dictionary obj conforms to the key type of t and every
\* value to its value type.
ItemsConform(obj, t, cast_decimal) ==
    \A i \in 1..Len(obj.v) :
       /\ is_instance(obj.v[i][1], t.args[1], cast_decimal).ok
       /\ is_instance(obj.v[i][2], t.args[2], cast_decimal).ok

\* C17 as claimed: is_instance accepts a value for Dict[K, V] exactly when it
\* is a plain dict, for OrderedDict[K, V] exactly when it is an OrderedDict
\* and for Mapping[K, V] exactly when it is either, and in each case every
\* key conforms to K and every value to V.
C17_ContainerKindMatches ==
    CheckedMapping =>
       (ret.ok <=>
          /\ call.obj.k \in (CASE call.t.k = "dict" -> {"dict"}
                               [] call.t.k = "OrderedDict" -> {"OrderedDict"}
                               [] OTHER -> DictKinds)
          /\ ItemsConform(call.obj, call.t, call.cast_decimal))

\* C17 as amended: is_instance accepts a value for Dict[K, V] and for
\* Mapping[K, V] exactly when it is a dict, plain or ordered, and for
\* OrderedDict[K, V] exactly when it is an OrderedDict, and in each case
\* every key conforms to K and every value to V.
C17_OrderedDictIsDict ==
    CheckedMapping =>
       (ret.ok <=>
          /\ call.obj.k \in (CASE call.t.k = "OrderedDict" -> {"OrderedDict"}
                               [] OTHER -> DictKinds)
          /\ ItemsConform(call.obj, call.t, call.cast_decimal))

\* is_instance has accepted an OrderedDict with an item for a Dict[K, V].
C17_Witness ==
    /\ CheckedMapping
    /\ call.t.k = "dict"
    /\ call.obj.k = "OrderedDict"
    /\ Len(call.obj.v) >= 1
    /\ ret.ok

(* ------------------------------------------------------------------ *)
(* Properties of to_json_obj on Unions, Literals and namedtuples       *)
(* ------------------------------------------------------------------ *)

\* The value obj conforms to the i-th member of the Union t.
ConformsToMember(obj, t, i) == is_instance(obj, t.args[i], TRUE).ok

\* The encodings of obj under the descriptor t that to_json_obj returns.
Encodings(obj, t) ==
    {r.val : r \in {e \in {to_json_obj(obj, t, ud) : ud \in BOOLEAN} : e.exc = ""}}

C20_UnsupportedRaises ==
    (call.fn = "is_instance" /\ ~is_typecheckable(call.t).ok) => ret.exc = "TypeError"

(* ------------------------------------------------------------------ *)
(* Properties of the outcomes and the trails of the checkers           *)
(* ------------------------------------------------------------------ *)

Did(io, r) == [exc |-> r.exc, why |-> r.why, val |-> r.val, trace |-> r.trace, io |-> io]

\* IfEncodable that runs the body of the function before the test of the
\* type.
IfEncodable_Late(enc, r) ==
    IF r.exc # "" THEN r
    ELSE IF enc.exc # "" THEN Did(<< >>, Raise(enc.exc, "", enc.trail))
    ELSE IF ~enc.ok THEN Did(<< >>, Raise("TypeError", "Type is not json-encodable.", << >>))
    ELSE r

\* Lines 49-50, 62-63, 75-76 and 88-89: `if not is_json_encodable(t): raise
\* TypeError`, then the rest r of the function; enc is is_json_encodable(t).
IfEncodable(enc, r) ==
    IF enc.exc # "" THEN Did(<< >>, Raise(enc.exc, "", enc.trail))
    ELSE IF ~enc.ok THEN Did(<< >>, Raise("TypeError", "Type is not json-encodable.", << >>))
    ELSE r

\* Line 52: json.dump(json_obj, fp) on the outcome r of to_json_obj.  The
\* chunks of the text are written as they are made, so the opening of a
\* list or a dict is written before an item that cannot be serialized raises.
WriteJson(r) ==
    IF r.exc # "" THEN Did(<< >>, r)
    ELSE IF JsonSerializable(r.val) THEN Did(<<"write">>, Returned(PyNone))
    ELSE Did(IF r.val.k \in {"list"} \union DictKinds THEN <<"write">> ELSE << >>,
             Raise("TypeError", "Object is not JSON serializable", << >>))

\* Line 65: json.dumps(json_obj) on the outcome r of to_json_obj.
TextJson(r) == IF r.exc # "" THEN Did(<< >>, r) ELSE Did(<< >>, JsonDumps(r.val))

RECURSIVE WithHooks(_)
\* Lines 77 and 90: what json.load makes of the parsed value x with
\* parse_float=Decimal and object_pairs_hook=collections.OrderedDict.
WithHooks(x) ==
    CASE x.k = "float" -> PyDecimal(x.v)
      [] x.k = "list" -> PyList([i \in 1..Len(x.v) |-> WithHooks(x.v[i])])
      [] x.k \in DictKinds ->
            PyOrderedDict([i \in 1..Len(x.v) |-> <<x.v[i][1], WithHooks(x.v[i][2])>>])
      [] OTHER -> x

\* Lines 77-78 and 90-91: from_json_obj on the outcome p of parsing the
\* text, after the events io.
DecodeParsed(io, p, t, cast_decimal) ==
    IF p.exc # "" THEN Did(io, p)
    ELSE Did(io, from_json_obj(WithHooks(p.val), t, cast_decimal))

dump(obj, encoded_type) ==
    IfEncodable(is_json_encodable(encoded_type),
                WriteJson(to_json_obj(obj, encoded_type, FALSE)))

dumps(obj, encoded_type) ==
    IfEncodable(is_json_encodable(encoded_type),
                TextJson(to_json_obj(obj, encoded_type, FALSE)))

load(fp, decoded_type, cast_decimal) ==
    IfEncodable(is_json_encodable(decoded_type),
                DecodeParsed(<<"read", "parse">>, JsonLoads(fp), decoded_type, cast_decimal))

loads(s, decoded_type, cast_decimal) ==
    IfEncodable(is_json_encodable(decoded_type),
                DecodeParsed(<<"parse">>, JsonLoads(s), decoded_type, cast_decimal))

\* The text handed to load and loads for the object obj: a string is the
\* text itself, be it JSON or not; another object is its JSON text, and the
\* empty text when it has none.
TextOf(obj) ==
    IF obj.k = "str" THEN obj
    ELSE IF JsonSerializable(obj) THEN JsonDumps(obj).val
    ELSE PyStr(Txt(""))

\* dump(obj, encoded_type, fp)
Dump ==
    /\ call.fn = "none"
    /\ call' = Args("dump", call.t, call.obj, TRUE, FALSE)
    /\ ret' = dump(call.obj, call.t)
    /\ src' = NoValue

\* dumps(obj, encoded_type)
Dumps ==
    /\ call.fn = "none"
    /\ call' = Args("dumps", call.t, call.obj, TRUE, FALSE)
    /\ ret' = dumps(call.obj, call.t)
    /\ src' = NoValue

\* load(fp, decoded_type, cast_decimal) on a stream that holds TextOf(obj)
Load ==
    /\ call.fn = "none"
    /\ \E cast_decimal \in BOOLEAN :
          /\ call' = Args("load", call.t, call.obj, cast_decimal, FALSE)
          /\ ret' = load(TextOf(call.obj), call.t, cast_decimal)
    /\ src' = TextOf(call.obj)

\* loads(s, decoded_type, cast_decimal) with s = TextOf(obj)
Loads ==
    /\ call.fn = "none"
    /\ \E cast_decimal \in BOOLEAN :
          /\ call' = Args("loads", call.t, call.obj, cast_decimal, FALSE)
          /\ ret' = loads(TextOf(call.obj), call.t, cast_decimal)
    /\ src' = TextOf(call.obj)

NextIO ==
    \/ Dump
    \/ Dumps
    \/ Load
    \/ Loads

SpecIO == Init /\ [][NextIO]_vars

\* C22: dump, dumps, load and loads raise TypeError when the type is not
\* JSON-encodable, and have then written nothing to the stream and read and
\* parsed nothing from the stream or the string.
C22_TypeErrorBeforeIO ==
    (call.fn \in {"dump", "dumps", "load", "loads"} /\ ~is_json_encodable(call.t).ok) =>
       ret.exc = "TypeError" /\ ret.io = << >>

\* load or loads has raised TypeError for a type that is not JSON-encodable
\* on a text that does not parse.
C22_Witness ==
    /\ call.fn \in {"load", "loads"}
    /\ ~is_json_encodable(call.t).ok
    /\ JsonLoads(src).exc # ""
    /\ ret.exc = "TypeError"

Checkers == {"is_typecheckable", "is_keyable", "is_json_encodable", "is_instance"}

\* C23: when is_typecheckable, is_keyable, is_json_encodable or is_instance
\* returns False, the call has handed at least one reason to
\* failure_callback.
C23_FalseLeavesReason ==
    (call.fn \in Checkers /\ ret.exc = "" /\ ~ret.ok) => ret.trail # << >>

(* ------------------------------------------------------------------ *)
(* C24: the order of the reasons in the trail.                         *)
(* ------------------------------------------------------------------ *)

\* No reason about the descriptor t comes before a reason about another
\* descriptor.  In a trail of a check of t every reason about another
\* descriptor concerns a node inside t, which t encloses.
RootLast(trail, t) ==
    \A i, j \in 1..Len(trail) : (i < j /\ trail[i][2] = t) => trail[j][2] = t

\* C24: the trail is ordered innermost first: in the trail of a failed
\* is_instance, is_typecheckable, is_keyable or is_json_encodable, and in the
\* trace of the TypeError of to_json_obj, no reason about the checked
\* descriptor precedes a reason about a node it encloses.
C24_InnermostFirst ==
    /\ (call.fn \in Checkers /\ ret.exc = "" /\ ~ret.ok) => RootLast(ret.trail, call.t)
    /\ (call.fn = "to_json_obj" /\ ret.exc = "TypeError") => RootLast(ret.trace, call.t)

\* C25: a call of is_instance that returns True leaves the sink of
\* failure_callback as it found it: no reason is appended.
C25_TrueAppendsNothing ==
    (call.fn = "is_instance" /\ ret.exc = "" /\ ret.ok) => ret.trail = << >>

\* C26: with use_decimal=False the value returned by to_json_obj holds no
\* Decimal at any depth, neither as a value nor as a key.
C26_NoDecimalInOutput ==
    (call.fn = "to_json_obj" /\ ~call.use_decimal /\ ret.exc = "") =>
       ~HoldsDecimal(ret.val)

\* C27: to_json_obj returns a value, and raises nothing, on every
\* JSON-encodable descriptor and every obj that is_instance accepts for it.
C27_TotalOnPrecondition ==
    (/\ call.fn = "to_json_obj"
     /\ is_json_encodable(call.t).ok
     /\ is_instance(call.obj, call.t, TRUE).ok) => ret.exc = ""

\* C28: the object that to_json_obj returns for a mapping has as many
\* entries as the mapping: no two keys of the input are encoded to the same
\* output key.
C28_NoEntryLost ==
    EncodedMapping =>
       Len(ret.val.v) = Len(call.obj.v)

\* The decodings a and b fail with the same kind of fault, or both return
\* and their items are the same keys with the same values.
SameItems(a, b) ==
    /\ a.exc = b.exc
    /\ a.exc = "" => a.val.v = b.val.v

\* C29: the OrderedDict branch and the Dict branch of from_json_obj apply
\* the same rule to keys of JSON basic type: an ordered blob decoded against
\* OrderedDict[K, V] and against Dict[K, V] succeeds in both or fails with
\* the same kind of fault in both, and gives the same keys and values.
C29_SameKeyRule ==
    (/\ call.fn = "from_json_obj"
     /\ call.t.k = "OrderedDict"
     /\ call.obj.k = "OrderedDict"
     /\ call.t.args[1].k \in JSON_BASE_TYPES) =>
       SameItems(ret, from_json_obj(call.obj,
                                    DictOf(call.t.args[1], call.t.args[2]),
                                    call.cast_decimal))

\* C30: a value that from_json_obj(obj, t, cast_decimal) returns conforms to
\* t: is_instance(v, t, cast_decimal) is True.
C30_DecodedConforms ==
    (call.fn = "from_json_obj" /\ ret.exc = "") =>
       is_instance(ret.val, call.t, call.cast_decimal).ok

\* A namedtuple rebuilt with cast_decimal=False from an object that holds a
\* Decimal: the instance returned holds none and conforms.
C30_Witness ==
    /\ call.fn = "from_json_obj"
    /\ call.t.k = "namedtuple"
    /\ ~call.cast_decimal
    /\ HoldsDecimal(call.obj)
    /\ ret.exc = ""
    /\ ret.val.k = "namedtuple"
    /\ ~HoldsDecimal(ret.val)
    /\ is_instance(ret.val, call.t, FALSE).ok

====
